---- MODULE Spec2Model ----
(***************************************************************************)
(* Model of the macro_analysis_dashboard data pipeline.                    *)
(*                                                                         *)
(*   calculator layer  (modules/utils.py, modules/calculator/*.py)         *)
(*       fill_calendar, merge, get_ref_value, build_change_summary,        *)
(*       standardize, standardize_bond   -- pure functions on tables       *)
(*   portal collector  (modules/collector/kofia.py)                        *)
(*       BondSummary.collect             -- a browser-driving procedure    *)
(*                                                                         *)
(* A pandas DataFrame is a record                                          *)
(*     [index : Seq(date), columns : Seq(name), data : Seq(Seq(cell))]     *)
(* with data[i][j] the cell of row i (date index[i]) and column j.         *)
(* A date is a day number.  A cell is NaN, a number or a text; yields are  *)
(* held in hundredths of a percent (4.15 % is 415), so that the arithmetic *)
(* of the source is exact integer arithmetic here.                         *)
(***************************************************************************)
EXTENDS Integers, Sequences, FiniteSets, TLC

VARIABLES
    tblA,       \* first table handed to the calculator
    tblB,       \* second table handed to the calculator (merge)
    refDate,    \* the ref_date / target_date argument
    calcOp,     \* the calculator call made last
    calcRet,    \* what that call returned (a table, a row, or Raised)
    calcRet2    \* what the follow-up call returned

calcVars == <<tblA, tblB, refDate, calcOp, calcRet, calcRet2>>

VARIABLES
    pc,          \* where BondSummary.collect stands
    nav,         \* the step of _navigate_to_period_tab to run next
    sessions,    \* browser sessions launched so far (the last is `driver`)
    driverOpen,  \* the browser of `driver` is running
    quits,       \* calls of driver.quit() so far
    checked,     \* the checkboxes checked on the portal page
    batchIdx,    \* the place of the running batch in _BOND_SUMMARY_BATCHES
    polls,       \* polls made by the running _wait_for_download
    dl,          \* what _wait_for_download returned
    files,       \* content of the download file at each candidate path
    inflight,    \* exports whose download the browser has not finished
    exports,     \* the exports triggered so far: session, batch, selection
    destFiles,   \* content of bond_summary_<name>.xls, by batch name
    batch_files, \* the batch names collected so far
    raisedIn,    \* where the exception caught by collect was raised
    ret,         \* what collect returned
    final,       \* content of bond_summary.xlsx / treasury_summary.xlsx
    collector,   \* the class whose collect runs: BondSummary or TreasurySummary
    absent,      \* the checkboxes the portal page does not have
    log          \* the steps the running collect has completed, in order

portalVars == <<pc, nav, sessions, driverOpen, quits, checked, batchIdx, polls, dl,
                files, inflight, exports, destFiles, batch_files, raisedIn, ret, final,
                collector, absent, log>>

VARIABLES
    rpc,            \* where GlobalTreasury.collect stands
    slugIdx,        \* the place in BOND_SLUGS of the instrument being collected
    _pair_id_cache, \* self._pair_id_cache: slug -> pair_id
    pair_id,        \* what _get_pair_id returned for the instrument
    all_series,     \* the columns collected so far, in insertion order
    browser,        \* "none", "open" or "closed": the Playwright browser
    pageFetches,    \* page.goto calls made so far, by instrument
    attempted,      \* the instruments the running collect has attempted
    lastResolve,    \* the last _get_pair_id call: slug, result, what happened
    collects,       \* collect calls started on this instance
    remoteRet       \* what the last collect returned

remoteVars == <<rpc, slugIdx, _pair_id_cache, pair_id, all_series, browser, pageFetches,
                attempted, lastResolve, collects, remoteRet>>

VARIABLES
    spc,          \* where the collection script (collect_data.py) stands
    clock,        \* date.today() of the running script
    runs,         \* runs of the script started so far
    bondCsv,      \* data/bond_summary.csv: a table, or None when absent
    globalCsv,    \* data/global_treasury.csv: a table, or None when absent
    gt_existing,  \* what _load_csv returned for the global CSV
    df_g,         \* what gt.collect returned
    csvAtStart,   \* both CSV files as they were when the run started
    stepsRun,     \* the collection steps the run has entered
    scriptExit,   \* how the run ended: "none", "ok" or the error raised
    calls         \* the collect calls of the run: collector, start and end date

scriptVars == <<spc, clock, runs, bondCsv, globalCsv, gt_existing, df_g, csvAtStart,
                stepsRun, scriptExit, calls>>

vars == <<calcVars, portalVars, remoteVars, scriptVars>>

\* no collection is running
PortalIdle ==
    /\ pc = "idle"
    /\ nav = 0
    /\ sessions = 0
    /\ driverOpen = FALSE
    /\ quits = 0
    /\ checked = {}
    /\ batchIdx = 0
    /\ polls = 0
    /\ dl = 0
    /\ files = << >>
    /\ inflight = {}
    /\ exports = << >>
    /\ destFiles = << >>
    /\ batch_files = << >>
    /\ raisedIn = << >>
    /\ ret = "none"
    /\ final = << >>
    /\ collector = "none"
    /\ absent = {}
    /\ log = << >>

\* the collection script is not running
ScriptIdle ==
    /\ spc = "idle"
    /\ clock = 0
    /\ runs = 0
    /\ bondCsv = << >>
    /\ globalCsv = << >>
    /\ gt_existing = << >>
    /\ df_g = << >>
    /\ csvAtStart = << >>
    /\ stepsRun = {}
    /\ scriptExit = "none"
    /\ calls = << >>

\* no GlobalTreasury instance is collecting
RemoteIdle ==
    /\ rpc = "idle"
    /\ slugIdx = 0
    /\ _pair_id_cache = << >>
    /\ pair_id = 0
    /\ all_series = << >>
    /\ browser = "none"
    /\ pageFetches = << >>
    /\ attempted = {}
    /\ lastResolve = << >>
    /\ collects = 0
    /\ remoteRet = "none"

(***************************************************************************)
(* Cells, rows, tables                                                     *)
(***************************************************************************)
NaN == [k |-> "nan"]
Num(x) == [k |-> "num", v |-> x]
Text == [k |-> "str"]
None == [k |-> "None"]

notna(c) == c # NaN

Raised(e) == [raised |-> e]
IsRaised(r) == "raised" \in DOMAIN r
IsTable(r) == "index" \in DOMAIN r

Range(s) == {s[i] : i \in 1..Len(s)}

Min(S) == CHOOSE m \in S : \A e \in S : m <= e
Max(S) == CHOOSE m \in S : \A e \in S : e <= m

RECURSIVE SortedSeq(_)
SortedSeq(S) == IF S = {} THEN << >> ELSE <<Min(S)>> \o SortedSeq(S \ {Min(S)})

\* position of label d in an index that holds it
Loc(ix, d) == CHOOSE i \in 1..Len(ix) : ix[i] = d

NaNRow(columns) == [j \in 1..Len(columns) |-> NaN]

(***************************************************************************)
(* fill_calendar                                                           *)
(***************************************************************************)
date_range_open(lo, hi) == [i \in 1..(hi - lo) |-> lo + (i - 1)]

\* pd.date_range(lo, hi, freq="D"): every day from lo to hi, both included
date_range(lo, hi) == [i \in 1..(hi - lo + 1) |-> lo + (i - 1)]

\* df.reindex(full): the row of each label of full, all-NaN where df has none
reindex(df, full) ==
    [index   |-> full,
     columns |-> df.columns,
     data    |-> [i \in 1..Len(full) |->
                    IF full[i] \in Range(df.index)
                    THEN df.data[Loc(df.index, full[i])]
                    ELSE NaNRow(df.columns)]]

\* the last non-NaN cell of column j in rows 1..i, in row order
LastValid(df, i, j) ==
    LET valid == {r \in 1..i : notna(df.data[r][j])}
    IN  IF valid = {} THEN NaN ELSE df.data[Max(valid)][j]

ffill_limit1(df) ==
    [df EXCEPT !.data =
        [i \in 1..Len(df.index) |-> [j \in 1..Len(df.columns) |->
            IF notna(df.data[i][j]) \/ i = 1 THEN df.data[i][j]
            ELSE df.data[i - 1][j]]]]

ffill_off(df) == df

\* df.ffill(): each NaN cell takes the last valid cell above it
ffill(df) ==
    [df EXCEPT !.data =
        [i \in 1..Len(df.index) |-> [j \in 1..Len(df.columns) |->
            LastValid(df, i, j)]]]

HasDuplicates(ix) == \E i, j \in 1..Len(ix) : i # j /\ ix[i] = ix[j]

\* fill_calendar(df): reindex onto min..max of the index, then forward fill.
\* date_range raises on the NaT bounds of an empty index; reindex raises on
\* an index with duplicate labels.
fill_calendar(df) ==
    IF Len(df.index) = 0 THEN Raised("ValueError")
    ELSE IF HasDuplicates(df.index) THEN Raised("ValueError")
    ELSE ffill(reindex(df, date_range(Min(Range(df.index)), Max(Range(df.index)))))

(***************************************************************************)
(* get_ref_value                                                           *)
(***************************************************************************)
avail_lt(df, ref_date) == SelectSeq(df.index, LAMBDA d : d < ref_date)

\* df.index[df.index <= ref_date]
avail(df, ref_date) == SelectSeq(df.index, LAMBDA d : d <= ref_date)

\* a pd.Series: one value per label
Series(labels, values) == [labels |-> labels, values |-> values]

get_ref_value_first(df, ref_date) ==
    IF Len(avail(df, ref_date)) = 0 THEN Series(df.columns, NaNRow(df.columns))
    ELSE Series(df.columns, df.data[Loc(df.index, avail(df, ref_date)[1])])

\* the row at avail[-1], or a NaN Series over df.columns
get_ref_value(df, ref_date) ==
    IF Len(avail(df, ref_date)) = 0 THEN Series(df.columns, NaNRow(df.columns))
    ELSE Series(df.columns,
                df.data[Loc(df.index, avail(df, ref_date)[Len(avail(df, ref_date))])])

(***************************************************************************)
(* Inputs of the calculator                                                *)
(***************************************************************************)
MaxDate == 4

Dates == 1..MaxDate

\* the cells a column of the bounded inputs may hold
CellsOf(columns, j) ==
    IF Len(columns) = 1 THEN {NaN, Num(410), Num(415)}
    ELSE IF j = 1 THEN {NaN, Num(380)} ELSE {NaN, Num(412)}

RowsOf(columns) ==
    {r \in [1..Len(columns) -> {NaN, Num(380), Num(410), Num(412), Num(415)}] :
        \A j \in 1..Len(columns) : r[j] \in CellsOf(columns, j)}

\* the wide tables over the given columns: a strictly increasing index of
\* unique dates, at least one row
WideTables(columns) ==
    UNION {{[index |-> SortedSeq(S), columns |-> columns, data |-> d] :
                d \in [1..Cardinality(S) -> RowsOf(columns)]} :
           S \in (SUBSET Dates) \ {{}}}

EmptyTable == [index |-> << >>, columns |-> << >>, data |-> << >>]

FillInputs == WideTables(<<"US_10Y">>) \cup WideTables(<<"US_2Y", "US_10Y">>)

RefDates == 0..(MaxDate + 1)

(***************************************************************************)
(* SpecFill: fill_calendar and get_ref_value applied to a wide table       *)
(***************************************************************************)
InitFill ==
    /\ PortalIdle
    /\ RemoteIdle
    /\ ScriptIdle
    /\ tblA \in FillInputs
    /\ tblB = EmptyTable
    /\ refDate = 0
    /\ calcOp = "init"
    /\ calcRet = None
    /\ calcRet2 = None

DoFillCalendar ==
    /\ calcOp = "init"
    /\ calcOp' = "fill_calendar"
    /\ calcRet' = fill_calendar(tblA)
    /\ UNCHANGED <<tblA, tblB, refDate, calcRet2, portalVars, remoteVars, scriptVars>>

DoFillCalendarAgain ==
    /\ calcOp = "fill_calendar"
    /\ IsTable(calcRet)
    /\ calcOp' = "fill_calendar_twice"
    /\ calcRet2' = fill_calendar(calcRet)
    /\ UNCHANGED <<tblA, tblB, refDate, calcRet, portalVars, remoteVars, scriptVars>>

DoGetRefValue ==
    /\ calcOp = "init"
    /\ \E r \in RefDates :
          /\ refDate' = r
          /\ calcRet' = get_ref_value(tblA, r)
    /\ calcOp' = "get_ref_value"
    /\ UNCHANGED <<tblA, tblB, calcRet2, portalVars, remoteVars, scriptVars>>

NextFill == DoFillCalendar \/ DoFillCalendarAgain \/ DoGetRefValue

SpecFill == InitFill /\ [][NextFill]_vars

\* the dates of the original table at or before d
OrigUpTo(df, d) == {e \in Range(df.index) : e <= d}

\* the rows of df, at or before day d, where column j holds a value
ObservedUpTo(df, j, d) ==
    {i \in 1..Len(df.index) : df.index[i] <= d /\ notna(df.data[i][j])}

\* column j's last observation of df at a date <= d, NaN when there is none
LastObservation(df, j, d) ==
    IF ObservedUpTo(df, j, d) = {} THEN NaN
    ELSE df.data[CHOOSE i \in ObservedUpTo(df, j, d) :
                    \A o \in ObservedUpTo(df, j, d) : df.index[o] <= df.index[i]][j]

\* one row per calendar day from the first to the last date of df
CalendarOf(df, filled) ==
    /\ Len(filled.index) = Max(Range(df.index)) - Min(Range(df.index)) + 1
    /\ \A i \in 1..Len(filled.index) : filled.index[i] = Min(Range(df.index)) + i - 1

\* C1: fill_calendar is idempotent: for a table with a non-empty index of
\* unique dates, filling the filled table again returns the same dates, the
\* same columns and the same cells.
C1_FillCalendarIdempotent ==
    calcOp = "fill_calendar_twice" => calcRet2 = calcRet

C1_Witness ==
    /\ calcOp = "fill_calendar_twice"
    /\ Len(calcRet.index) >= Len(tblA.index) + 2
    /\ \E i \in 1..Len(calcRet.index) : \E j \in 1..Len(calcRet.columns) :
          /\ calcRet.index[i] \notin Range(tblA.index)
          /\ notna(calcRet.data[i][j])

\* C2 as stated: fill_calendar(T) has one row per calendar day from
\* min(index) to max(index), and the row of every day d that is not in T's
\* index equals T's own row at the latest original date <= d.
C2_RowEqualsOriginalRow ==
    calcOp = "fill_calendar" =>
        /\ IsTable(calcRet)
        /\ CalendarOf(tblA, calcRet)
        /\ \A i \in 1..Len(calcRet.index) :
              calcRet.index[i] \notin Range(tblA.index) =>
                 calcRet.data[i] =
                    tblA.data[Loc(tblA.index, Max(OrigUpTo(tblA, calcRet.index[i])))]

\* C2 amended: fill_calendar(T) has one row per calendar day from min(index)
\* to max(index), and on every day d that is not in T's index each cell holds
\* its column's last non-missing value of T at a date <= d (missing when the
\* column has none), which is the filled table's row at the latest original
\* date <= d.
C2_FillCarriesLastObservation ==
    calcOp = "fill_calendar" =>
        /\ IsTable(calcRet)
        /\ calcRet.columns = tblA.columns
        /\ CalendarOf(tblA, calcRet)
        /\ \A i \in 1..Len(calcRet.index) :
              calcRet.index[i] \notin Range(tblA.index) =>
                 /\ \A j \in 1..Len(tblA.columns) :
                       calcRet.data[i][j] = LastObservation(tblA, j, calcRet.index[i])
                 /\ calcRet.data[i] =
                       calcRet.data[Loc(calcRet.index,
                                        Max(OrigUpTo(tblA, calcRet.index[i])))]

C2_Witness ==
    /\ calcOp = "fill_calendar"
    /\ \E i \in 1..Len(calcRet.index) : \E j \in 1..Len(calcRet.columns) :
          /\ calcRet.index[i] \notin Range(tblA.index)
          /\ notna(calcRet.data[i][j])
          /\ tblA.data[Loc(tblA.index, Max(OrigUpTo(tblA, calcRet.index[i])))][j] = NaN

\* C7: get_ref_value returns the row at the latest date <= ref_date; an
\* all-missing row over the table's columns when ref_date is before the
\* earliest date; the latest row when ref_date is at or after the latest
\* date; and it never raises.
C7_RefValueIsLatestRowAtOrBefore ==
    calcOp = "get_ref_value" =>
        /\ ~IsRaised(calcRet)
        /\ calcRet.labels = tblA.columns
        /\ (OrigUpTo(tblA, refDate) = {} =>
               \A j \in 1..Len(tblA.columns) : calcRet.values[j] = NaN)
        /\ (OrigUpTo(tblA, refDate) # {} =>
               calcRet.values = tblA.data[Loc(tblA.index, Max(OrigUpTo(tblA, refDate)))])
        /\ (refDate >= Max(Range(tblA.index)) =>
               calcRet.values = tblA.data[Len(tblA.index)])
        /\ (refDate < Min(Range(tblA.index)) =>
               \A j \in 1..Len(tblA.columns) : calcRet.values[j] = NaN)

C7_Witness ==
    /\ calcOp = "get_ref_value"
    /\ refDate \notin Range(tblA.index)
    /\ Min(Range(tblA.index)) < refDate
    /\ refDate < Max(Range(tblA.index))
    /\ \E j \in 1..Len(tblA.columns) : notna(calcRet.values[j])
    /\ calcRet.values # tblA.data[1]

(***************************************************************************)
(* merge                                                                   *)
(***************************************************************************)
\* the row of df at label d, all-NaN when df has no such label
RowAt(df, d) ==
    IF d \in Range(df.index) THEN df.data[Loc(df.index, d)] ELSE NaNRow(df.columns)

join_on(g, k, ix) ==
    [index   |-> ix,
     columns |-> g.columns \o k.columns,
     data    |-> [i \in 1..Len(ix) |-> RowAt(g, ix[i]) \o RowAt(k, ix[i])]]

join_left(g, k) ==
    IF Range(g.columns) \cap Range(k.columns) # {} THEN Raised("ValueError")
    ELSE join_on(g, k, g.index)

join_inner(g, k) ==
    IF Range(g.columns) \cap Range(k.columns) # {} THEN Raised("ValueError")
    ELSE join_on(g, k, SortedSeq(Range(g.index) \cap Range(k.index)))

\* g.join(k, how="outer") of two frames whose indexes are increasing and
\* unique: the sorted union of the two indexes, g's columns then k's.
\* DataFrame.join raises when a column name occurs on both sides (no suffix
\* is given).
join(g, k) ==
    IF Range(g.columns) \cap Range(k.columns) # {} THEN Raised("ValueError")
    ELSE join_on(g, k, SortedSeq(Range(g.index) \cup Range(k.index)))

\* df.sort_index() of a frame with unique labels
sort_index(df) ==
    [index   |-> SortedSeq(Range(df.index)),
     columns |-> df.columns,
     data    |-> [i \in 1..Len(df.index) |->
                    df.data[Loc(df.index, SortedSeq(Range(df.index))[i])]]]

\* TreasuryCalc.merge / merge_treasury: outer join, forward fill, sort
merge(global_df, kr_df) ==
    IF IsRaised(join(global_df, kr_df)) THEN join(global_df, kr_df)
    ELSE sort_index(ffill(join(global_df, kr_df)))

(***************************************************************************)
(* SpecMerge: merge applied to two calendar-filled tables, the first over  *)
(* a column of the global catalog, the second over KR columns              *)
(***************************************************************************)
CalendarFilled(tables) == {fill_calendar(t) : t \in tables}

GlobalInputs == CalendarFilled(WideTables(<<"US_10Y">>))

KrInputs == CalendarFilled(WideTables(<<"KR_2Y", "KR_10Y">>))

InitMerge ==
    /\ PortalIdle
    /\ RemoteIdle
    /\ ScriptIdle
    /\ tblA \in GlobalInputs
    /\ tblB \in KrInputs
    /\ refDate = 0
    /\ calcOp = "init"
    /\ calcRet = None
    /\ calcRet2 = None

DoMerge ==
    /\ calcOp = "init"
    /\ calcOp' = "merge"
    /\ calcRet' = merge(tblA, tblB)
    /\ UNCHANGED <<tblA, tblB, refDate, calcRet2, portalVars, remoteVars, scriptVars>>

DoMergeSwapped ==
    /\ calcOp = "merge"
    /\ calcOp' = "merge_swapped"
    /\ calcRet2' = merge(tblB, tblA)
    /\ UNCHANGED <<tblA, tblB, refDate, calcRet, portalVars, remoteVars, scriptVars>>

NextMerge == DoMerge \/ DoMergeSwapped

SpecMerge == InitMerge /\ [][NextMerge]_vars

ColLoc(columns, c) == CHOOSE j \in 1..Len(columns) : columns[j] = c

\* the cell of df at date d and column name c
CellAt(df, d, c) == df.data[Loc(df.index, d)][ColLoc(df.columns, c)]

StrictlyIncreasing(ix) == \A i \in 1..(Len(ix) - 1) : ix[i] < ix[i + 1]

\* the input table that holds column c
SourceOf(c) == IF c \in Range(tblA.columns) THEN tblA ELSE tblB

\* C3: merge(A,B) and merge(B,A) of two calendar-filled tables have the same
\* set of dates and, for every date and every column, the same value
\* (missing matching missing); only the order of the columns may differ.
C3_MergeCommutesUpToColumnOrder ==
    calcOp = "merge_swapped" =>
        /\ IsRaised(calcRet) = IsRaised(calcRet2)
        /\ IsTable(calcRet) =>
              /\ IsTable(calcRet2)
              /\ Range(calcRet.index) = Range(calcRet2.index)
              /\ Range(calcRet.columns) = Range(calcRet2.columns)
              /\ \A d \in Range(calcRet.index) : \A c \in Range(calcRet.columns) :
                    CellAt(calcRet, d, c) = CellAt(calcRet2, d, c)

C3_Witness ==
    /\ calcOp = "merge_swapped"
    /\ IsTable(calcRet)
    /\ IsTable(calcRet2)
    /\ calcRet.columns # calcRet2.columns
    /\ Range(tblA.index) \ Range(tblB.index) # {}
    /\ Range(tblB.index) \ Range(tblA.index) # {}
    /\ \E d \in Range(calcRet.index) : \E c \in Range(calcRet.columns) :
          d \notin Range(SourceOf(c).index) /\ notna(CellAt(calcRet, d, c))

C5_MergeCellIsLastValueAtOrBefore ==
    (calcOp = "merge" /\ IsTable(calcRet)) =>
        \A i \in 1..Len(calcRet.index) : \A j \in 1..Len(calcRet.columns) :
            calcRet.data[i][j] =
                LastObservation(SourceOf(calcRet.columns[j]),
                                ColLoc(SourceOf(calcRet.columns[j]).columns,
                                       calcRet.columns[j]),
                                calcRet.index[i])

C5_Witness ==
    /\ calcOp = "merge"
    /\ IsTable(calcRet)
    /\ tblA.index = <<1, 2, 3>>
    /\ tblB.index = <<2, 3, 4>>
    /\ calcRet.index = <<1, 2, 3, 4>>
    /\ CellAt(calcRet, 1, "KR_10Y") = NaN
    /\ CellAt(calcRet, 4, "US_10Y") = CellAt(tblA, 3, "US_10Y")
    /\ CellAt(tblA, 3, "US_10Y") = Num(415)
    /\ CellAt(tblA, 1, "US_10Y") = Num(410)
    /\ CellAt(calcRet, 4, "KR_10Y") = Num(412)

(***************************************************************************)
(* standardize / standardize_bond                                          *)
(*                                                                         *)
(* A raw header is a sequence of tokens: a word W(w), a tenor in years     *)
(* Y(n) (the text "(n<nyeon>)"), a tenor in days D(n) (the text            *)
(* "(n<il>)"), or white space WS.  The Korean words of the portal are      *)
(* written in Latin letters:                                               *)
(*   gukgochae = KTB name, gwon = its optional suffix,                     *)
(*   gukminjutaek = national housing bond, tongan = monetary stabilisation *)
(*   bond, hanjeon = KEPCO bond, sangeum = KDB bond, hoesachae = corporate *)
(*   bond, ilja = "date".                                                  *)
(***************************************************************************)
W(w) == [t |-> "w", w |-> w]
Y(n) == [t |-> "y", n |-> n]
D(n) == [t |-> "d", n |-> n]
WS == [t |-> "ws"]

\* a raw column label; str(col) is its token sequence
Header(tokens) == [tokens |-> tokens]

DateCell(d) == [k |-> "date", v |-> d]

\* an instrument code: KTB_10Y is Code("KTB", "", 10, "Y"), CORP_AA_3Y is
\* Code("CORP", "AA", 3, "Y"), MSB_91D is Code("MSB", "", 91, "D")
Code(family, grade, num, unit) ==
    [family |-> family, grade |-> grade, num |-> num, unit |-> unit]

\* re.sub(r"\s+", "", s)
strip_ws(s) == SelectSeq(s, LAMBDA tok : tok # WS)

\* "w" in s
Contains(s, w) == \E i \in 1..Len(s) : s[i] = W(w)

\* re.search(r"\((\d+)<nyeon>\)", s): the places of a tenor in years
YearPlaces(s) == {i \in 1..Len(s) : s[i].t = "y"}

\* "91" in s
Has91(s) == \E i \in 1..Len(s) : s[i].t \in {"y", "d"} /\ s[i].n = 91

\* re.search(r"gukgochae[gwon]?\((\d+)<nyeon>\)", s): the places where the
\* KTB name is followed, directly or after its suffix, by a tenor in years
KtbPlaces(s) ==
    {i \in 1..Len(s) :
        /\ s[i] = W("gukgochae")
        /\ \/ (i + 1 <= Len(s) /\ s[i + 1].t = "y")
           \/ (i + 2 <= Len(s) /\ s[i + 1] = W("gwon") /\ s[i + 2].t = "y")}

KtbTenor(s) ==
    IF s[Min(KtbPlaces(s)) + 1].t = "y" THEN s[Min(KtbPlaces(s)) + 1].n
    ELSE s[Min(KtbPlaces(s)) + 2].n

FirstYear(s) == s[Min(YearPlaces(s))].n

TenorCode(family, s) ==
    IF YearPlaces(s) # {} THEN Code(family, "", FirstYear(s), "Y") ELSE None

bond_col_code_of(s) ==
    IF KtbPlaces(s) # {} THEN Code("KTB", "", KtbTenor(s), "Y")
    ELSE IF Contains(s, "gukminjutaek") THEN TenorCode("NHB", s)
    ELSE IF Contains(s, "tongan") THEN
            (IF Has91(s) THEN Code("MSB", "", 91, "D") ELSE TenorCode("MSB", s))
    ELSE IF Contains(s, "hanjeon") THEN TenorCode("KEPCO", s)
    ELSE IF Contains(s, "sangeum") THEN TenorCode("KDB", s)
    ELSE IF Contains(s, "hoesachae") THEN
            (IF Contains(s, "AA") THEN Code("CORP", "AA", 3, "Y")
             ELSE IF Contains(s, "BBB") THEN Code("CORP", "BBB", 3, "Y")
             ELSE None)
    ELSE IF Contains(s, "CD") THEN Code("CD", "", 91, "D")
    ELSE IF Contains(s, "CP") THEN Code("CP", "", 91, "D")
    ELSE None

\* KofiaCalc._bond_col_code
_bond_col_code(col) == bond_col_code_of(strip_ws(col.tokens))

\* KofiaCalc.standardize: re.search(r"\((\d+)<nyeon>\)", str(col)) -> KR_nY
kr_col_code(col) == TenorCode("KR", col.tokens)

\* df.set_index(df.columns[p]): column p becomes the index
set_index(df, p) ==
    [index   |-> [i \in 1..Len(df.data) |-> df.data[i][p].v],
     columns |-> [j \in 1..(Len(df.columns) - 1) |->
                    df.columns[IF j < p THEN j ELSE j + 1]],
     data    |-> [i \in 1..Len(df.data) |-> [j \in 1..(Len(df.columns) - 1) |->
                    df.data[i][IF j < p THEN j ELSE j + 1]]]]

\* the column positions a label selects
PlacesOf(df, label) == SelectSeq([j \in 1..Len(df.columns) |-> j],
                                 LAMBDA j : df.columns[j] = label)

RECURSIVE PlacesOfAll(_, _)
PlacesOfAll(df, labels) ==
    IF labels = << >> THEN << >>
    ELSE PlacesOf(df, Head(labels)) \o PlacesOfAll(df, Tail(labels))

\* the columns of df at the given positions, in that order
take(df, places) ==
    [index   |-> df.index,
     columns |-> [j \in 1..Len(places) |-> df.columns[places[j]]],
     data    |-> [i \in 1..Len(df.index) |-> [j \in 1..Len(places) |->
                    df.data[i][places[j]]]]]

\* df[labels]: every column carrying each label, label by label
getitem(df, labels) == take(df, PlacesOfAll(df, labels))

\* df.rename(columns=rename_map), rename_map given as the code (or None) of
\* each column of df
rename(df, codes) ==
    [df EXCEPT !.columns = [j \in 1..Len(df.columns) |->
        IF codes[j] # None THEN codes[j] ELSE df.columns[j]]]

\* pd.to_numeric(errors="coerce") on every column
to_numeric(df) ==
    [df EXCEPT !.data = [i \in 1..Len(df.index) |-> [j \in 1..Len(df.columns) |->
        IF df.data[i][j].k = "num" THEN df.data[i][j] ELSE NaN]]]

\* a stable sort of a sequence by a key that is a pair of numbers
KeyLess(a, b) == a[1] < b[1] \/ (a[1] = b[1] /\ a[2] < b[2])

RECURSIVE InsertSorted(_, _, _)
InsertSorted(places, x, keys) ==
    IF places = << >> THEN <<x>>
    ELSE IF KeyLess(keys[x], keys[Head(places)])
         THEN <<x>> \o places
         ELSE <<Head(places)>> \o InsertSorted(Tail(places), x, keys)

\* the positions 1..n of keys in the order sorted() gives them
RECURSIVE SortedPlaces(_, _)
SortedPlaces(keys, n) ==
    IF n = 0 THEN << >>
    ELSE InsertSorted(SortedPlaces(keys, n - 1), n, keys)

\* sorted(seq, key=...), keys[i] being the key of seq[i]
sorted(seq, keys) ==
    LET places == SortedPlaces(keys, Len(seq))
    IN  [i \in 1..Len(seq) |-> seq[places[i]]]

IsCode(c) == "family" \in DOMAIN c

prefix_order == <<"KTB", "NHB", "MSB", "KEPCO", "KDB", "CORP", "CD", "CP">>

\* standardize_bond._col_sort_key: (place of the prefix, first number of the
\* code), (len(prefix_order), 0) for a column with no known prefix
_col_sort_key(c) ==
    IF IsCode(c) /\ \E i \in 1..Len(prefix_order) : prefix_order[i] = c.family
    THEN <<(CHOOSE i \in 1..Len(prefix_order) : prefix_order[i] = c.family) - 1, c.num>>
    ELSE <<Len(prefix_order), 0>>

\* the first column whose header holds "Date" or "ilja", else column 0
date_col(df) ==
    IF \E j \in 1..Len(df.columns) :
          Contains(df.columns[j].tokens, "Date") \/ Contains(df.columns[j].tokens, "ilja")
    THEN Min({j \in 1..Len(df.columns) :
                 Contains(df.columns[j].tokens, "Date") \/ Contains(df.columns[j].tokens, "ilja")})
    ELSE 1

\* the rename_map loops: the code (or None) of each column of df
bond_codes(df) == [j \in 1..Len(df.columns) |-> _bond_col_code(df.columns[j])]

kr_codes(df) == [j \in 1..Len(df.columns) |-> kr_col_code(df.columns[j])]

\* list(rename_map.keys()): the headers that map to a code, in column order
rename_map_keys(df, codes) ==
    LET places == SelectSeq([j \in 1..Len(df.columns) |-> j], LAMBDA j : codes[j] # None)
    IN  [i \in 1..Len(places) |-> df.columns[places[i]]]

bond_rename_all(df) == df.columns

\* standardize_bond: list(rename_map.keys())
bond_rename_map_keys(df) == rename_map_keys(df, bond_codes(df))

\* KofiaCalc.standardize_bond
standardize_bond(df) ==
    LET indexed == sort_index(set_index(df, date_col(df)))
        keys    == bond_rename_map_keys(indexed)
        kept    == getitem(indexed, keys)
        coded   == to_numeric(rename(kept, bond_codes(kept)))
        sorted_cols == sorted(coded.columns,
                              [j \in 1..Len(coded.columns) |-> _col_sort_key(coded.columns[j])])
    IN  IF keys = << >> THEN Raised("ValueError")
        ELSE fill_calendar(getitem(coded, sorted_cols))

IsKrCode(c) == "family" \in DOMAIN c /\ c.family = "KR"

\* standardize: list(rename_map.keys())
kr_rename_map_keys(df) == rename_map_keys(df, kr_codes(df))

kr_sort_key(c) == <<c.num, 0>>

\* KofiaCalc.standardize (and utils.standardize_kofia)
standardize(df) ==
    LET indexed == set_index(df, 1)
        keys    == kr_rename_map_keys(indexed)
        renamed == rename(indexed, kr_codes(indexed))
        matching == SelectSeq(renamed.columns, IsKrCode)
        kr_cols == sorted(matching, [j \in 1..Len(matching) |-> kr_sort_key(matching[j])])
    IN  IF keys = << >> THEN Raised("ValueError")
        ELSE fill_calendar(to_numeric(getitem(renamed, kr_cols)))

(***************************************************************************)
(* The raw tables handed to standardize / standardize_bond: the date       *)
(* column first, then up to MaxCols distinct raw headers, some of which    *)
(* map to a code and some of which do not; at least one row, dates         *)
(* ascending and distinct, as the portal's export has them.                *)
(***************************************************************************)
MaxCols == 2

RawHeaders ==
    {Header(<<W("gukgochae"), W("gwon"), Y(10)>>),
     Header(<<W("choejonghoga_"), W("gukgochae"), WS, Y(3)>>),
     Header(<<W("gukgochae"), Y(10)>>),
     Header(<<W("tongan"), W("jeunggwon"), D(91)>>),
     Header(<<W("hoesachae"), W("(mubojeung3nyeon)"), W("AA"), W("-")>>),
     Header(<<W("hoesachae"), W("(mubojeung3nyeon)"), W("BBB"), W("-")>>),
     Header(<<W("tongan"), W("jeunggwon"), Y(2)>>),
     Header(<<W("CD"), W("suikryul"), D(91)>>),
     Header(<<W("gukminjutaek"), W("1jong")>>),
     Header(<<W("geoktaeryang")>>),
     Header(<<W("bigo")>>)}

DateHeaders == {Header(<<W("ilja")>>), Header(<<W("Date")>>)}

HeaderLists ==
    {hs \in UNION {[1..n -> RawHeaders] : n \in 1..MaxCols} :
        \A i, j \in 1..Len(hs) : i # j => hs[i] # hs[j]}

RawIndexes == {<<2>>, <<1, 3>>}

RawVariants == {"numbers", "text", "blank"}

RawCell(variant, i, j) ==
    IF i = 1 /\ j = 1 /\ variant = "text" THEN Text
    ELSE IF i = 1 /\ j = 1 /\ variant = "blank" THEN NaN
    ELSE Num(280 + 10 * j + i)

RawTable(dh, hs, ix, variant) ==
    [columns |-> <<dh>> \o hs,
     data    |-> [i \in 1..Len(ix) |->
                    <<DateCell(ix[i])>> \o [j \in 1..Len(hs) |-> RawCell(variant, i, j)]]]

RawTables ==
    {RawTable(dh, hs, ix, v) :
        dh \in DateHeaders, hs \in HeaderLists, ix \in RawIndexes, v \in RawVariants}

InitStd ==
    /\ PortalIdle
    /\ RemoteIdle
    /\ ScriptIdle
    /\ tblA \in RawTables
    /\ tblB = EmptyTable
    /\ refDate = 0
    /\ calcOp = "init"
    /\ calcRet = None
    /\ calcRet2 = None

DoStandardize ==
    /\ calcOp = "init"
    /\ calcOp' = "standardize"
    /\ calcRet' = standardize(tblA)
    /\ UNCHANGED <<tblA, tblB, refDate, calcRet2, portalVars, remoteVars, scriptVars>>

DoStandardizeBond ==
    /\ calcOp = "init"
    /\ calcOp' = "standardize_bond"
    /\ calcRet' = standardize_bond(tblA)
    /\ UNCHANGED <<tblA, tblB, refDate, calcRet2, portalVars, remoteVars, scriptVars>>

NextStd == DoStandardize \/ DoStandardizeBond

SpecStd == InitStd /\ [][NextStd]_vars

\* the raw headers of the data columns (all but the date column, which comes
\* first in every raw table)
DataHeaders(raw) == {raw.columns[p] : p \in 2..Len(raw.columns)}

MappedCodes(raw, op) ==
    {IF op = "standardize" THEN kr_col_code(h) ELSE _bond_col_code(h) :
        h \in DataHeaders(raw)} \ {None}

\* result column j carries the numbers of raw column p on the raw dates
CarriesRawColumn(raw, res, j, p) ==
    \A i \in 1..Len(raw.data) :
        raw.data[i][p].k = "num" =>
            res.data[Loc(res.index, raw.data[i][1].v)][j] = raw.data[i][p]

\* C6: standardize and standardize_bond raise ValueError exactly when no raw
\* header maps to an instrument code; otherwise the result is a table whose
\* columns are exactly the codes of the mapped headers, each carrying the
\* numbers of a raw column whose header maps to that code, so that no
\* unrecognized header survives under its own or a guessed name.
C6_StandardizeKeepsOnlyMappedColumns ==
    calcOp \in {"standardize", "standardize_bond"} =>
        LET mapped == MappedCodes(tblA, calcOp)
            code(h) == IF calcOp = "standardize" THEN kr_col_code(h)
                       ELSE _bond_col_code(h)
        IN  IF mapped = {} THEN calcRet = Raised("ValueError")
            ELSE /\ IsTable(calcRet)
                 /\ Range(calcRet.columns) = mapped
                 /\ \A j \in 1..Len(calcRet.columns) :
                       \E p \in 2..Len(tblA.columns) :
                          /\ code(tblA.columns[p]) = calcRet.columns[j]
                          /\ CarriesRawColumn(tblA, calcRet, j, p)

C6_Witness ==
    /\ calcOp = "standardize_bond"
    /\ tblA.columns = <<Header(<<W("ilja")>>), Header(<<W("bigo")>>),
                        Header(<<W("gukgochae"), W("gwon"), Y(10)>>)>>
    /\ IsTable(calcRet)
    /\ calcRet.columns = <<Code("KTB", "", 10, "Y")>>

\* the raw table with its data columns in another order: column p of the
\* result is column perm[p] of raw, the date column staying first
Permuted(raw, perm) ==
    [columns |-> [p \in 1..Len(raw.columns) |-> raw.columns[perm[p]]],
     data    |-> [i \in 1..Len(raw.data) |->
                    [p \in 1..Len(raw.columns) |-> raw.data[i][perm[p]]]]]

ColumnOrders(raw) ==
    {perm \in [1..Len(raw.columns) -> 1..Len(raw.columns)] :
        /\ perm[1] = 1
        /\ \A p, q \in 1..Len(raw.columns) : p # q => perm[p] # perm[q]}

\* C17: the column order of standardize_bond's result is the same for every
\* ordering of the columns of the source table, and follows the precedence
\* KTB, NHB, MSB, KEPCO, KDB, CORP, CD, CP and then the number of the code.
C17_ColumnOrderIgnoresSourceOrder ==
    (calcOp = "standardize_bond" /\ IsTable(calcRet)) =>
        /\ \A perm \in ColumnOrders(tblA) :
              standardize_bond(Permuted(tblA, perm)).columns = calcRet.columns
        /\ \A j \in 1..(Len(calcRet.columns) - 1) :
              ~KeyLess(_col_sort_key(calcRet.columns[j + 1]),
                       _col_sort_key(calcRet.columns[j]))

(***************************************************************************)
(* build_change_summary / _build_bond_summary                              *)
(*                                                                         *)
(* A Timestamp is its day number (days since 1970-01-01); the civil        *)
(* calendar gives pd.Timestamp(y, m, d), .year, .month and DateOffset.     *)
(* A delta is held in hundredths of a basis point: Num(300) is +3.00 bp.   *)
(***************************************************************************)
\* pd.Timestamp(y, m, d) as a day number (proleptic Gregorian calendar)
Timestamp(y, m, d) ==
    LET yy  == IF m <= 2 THEN y - 1 ELSE y
        era == yy \div 400
        yoe == yy - era * 400
        mp  == (m + 9) % 12
        doy == (153 * mp + 2) \div 5 + d - 1
        doe == yoe * 365 + yoe \div 4 - yoe \div 100 + doy
    IN  era * 146097 + doe - 719468

\* <<ts.year, ts.month, ts.day>>
civil(ts) ==
    LET z   == ts + 719468
        era == z \div 146097
        doe == z - era * 146097
        yoe == (doe - doe \div 1460 + doe \div 36524 - doe \div 146096) \div 365
        doy == doe - (365 * yoe + yoe \div 4 - yoe \div 100)
        mp  == (5 * doy + 2) \div 153
        d   == doy - (153 * mp + 2) \div 5 + 1
        m   == IF mp < 10 THEN mp + 3 ELSE mp - 9
    IN  <<IF m <= 2 THEN yoe + era * 400 + 1 ELSE yoe + era * 400, m, d>>

is_leap_year(y) == (y % 4 = 0 /\ y % 100 # 0) \/ y % 400 = 0

days_in_month(y, m) ==
    IF m = 2 THEN (IF is_leap_year(y) THEN 29 ELSE 28)
    ELSE IF m \in {4, 6, 9, 11} THEN 30 ELSE 31

\* ts - pd.DateOffset(years=1): same month and day a year earlier, the day
\* clipped to the length of that month
minus_one_year(ts) ==
    LET c == civil(ts)
    IN  Timestamp(c[1] - 1, c[2],
                  IF c[3] > days_in_month(c[1] - 1, c[2])
                  THEN days_in_month(c[1] - 1, c[2]) ELSE c[3])

ref_labels == <<"1D", "1W", "MTD", "YTD", "YoY">>

\* ref_infos: the lookback date of each label
ref_infos(today) ==
    [label \in Range(ref_labels) |->
        CASE label = "1D"  -> today - 1
          [] label = "1W"  -> today - 7
          [] label = "MTD" -> Timestamp(civil(today)[1], civil(today)[2], 1) - 1
          [] label = "YTD" -> Timestamp(civil(today)[1] - 1, 12, 31)
          [] label = "YoY" -> minus_one_year(today)]

\* vals.get(col_key, nan) if col_key in vals.index else nan
series_get(vals, col_key) ==
    IF \E j \in 1..Len(vals.labels) : vals.labels[j] = col_key
    THEN vals.values[ColLoc(vals.labels, col_key)]
    ELSE NaN

diff_unscaled(curr, ref) ==
    IF notna(curr) /\ notna(ref) THEN Num(curr.v - ref.v) ELSE NaN

diff_zero_if_missing(curr, ref) ==
    IF notna(curr) /\ notna(ref) THEN Num((curr.v - ref.v) * 100) ELSE Num(0)

\* (curr - ref) * 100 if pd.notna(curr) and pd.notna(ref) else nan
diff(curr, ref) ==
    IF notna(curr) /\ notna(ref) THEN Num((curr.v - ref.v) * 100) ELSE NaN

ordered_codes == <<"US", "KR", "DE", "GB", "JP", "CN">>

tenors == <<2, 10>>

col_key(code, tenor) == code \o "_" \o ToString(tenor) \o "Y"

\* the level and the five deltas of one column
summary_row(df, today, key) ==
    LET curr == series_get(get_ref_value(df, today), key)
        refs == ref_infos(today)
    IN  [label \in {"level"} \cup Range(ref_labels) |->
            IF label = "level" THEN curr
            ELSE diff(curr, series_get(get_ref_value(df, refs[label]), key))]

\* TreasuryCalc.build_change_summary: one row per country of ordered_codes,
\* per tenor the level and the deltas
build_change_summary(df, target_date) ==
    LET today == IF target_date = None THEN Max(Range(df.index)) ELSE target_date.ts
    IN  [code \in Range(ordered_codes) |->
            [tenor \in Range(tenors) |-> summary_row(df, today, col_key(code, tenor))]]

\* main._build_bond_summary: one row per column of df
_build_bond_summary(df, target_date) ==
    [col \in Range(df.columns) |-> summary_row(df, target_date.ts, col)]

(***************************************************************************)
(* The tables handed to the summary: up to MaxRows rows on the dates the   *)
(* lookbacks of the target dates land on (and days missing in between),    *)
(* columns of the merged table or of the bond table.                       *)
(***************************************************************************)
MaxRows == 2

SummaryDates ==
    {Timestamp(2026, 2, 18), Timestamp(2026, 2, 17), Timestamp(2026, 2, 11),
     Timestamp(2026, 1, 31), Timestamp(2025, 12, 31), Timestamp(2025, 2, 18),
     Timestamp(2024, 2, 29), Timestamp(2024, 2, 28), Timestamp(2023, 2, 28)}

TargetDates ==
    {[ts |-> Timestamp(2026, 2, 18)], [ts |-> Timestamp(2024, 2, 29)],
     [ts |-> Timestamp(2026, 2, 20)]}

SummaryCells(columns, j) ==
    IF Len(columns) = 1 THEN {NaN, Num(412), Num(415)}
    ELSE IF j = 1 THEN {NaN, Num(275)} ELSE {NaN, Num(412)}

SummaryRows(columns) ==
    {r \in [1..Len(columns) -> {NaN, Num(275), Num(412), Num(415)}] :
        \A j \in 1..Len(columns) : r[j] \in SummaryCells(columns, j)}

SummaryTablesOf(columns) ==
    UNION {{[index |-> SortedSeq(ds), columns |-> columns, data |-> rows] :
               ds \in {x \in SUBSET SummaryDates : Cardinality(x) = n},
               rows \in [1..n -> SummaryRows(columns)]} : n \in 1..MaxRows}

SummaryTables ==
    SummaryTablesOf(<<"US_10Y">>) \cup SummaryTablesOf(<<"KR_2Y", "US_10Y">>)

InitSummary ==
    /\ PortalIdle
    /\ RemoteIdle
    /\ ScriptIdle
    /\ tblA \in SummaryTables
    /\ tblB = EmptyTable
    /\ refDate = None
    /\ calcOp = "init"
    /\ calcRet = None
    /\ calcRet2 = None

DoBuildChangeSummary ==
    /\ calcOp = "init"
    /\ \E target_date \in TargetDates \cup {None} :
          /\ refDate' = target_date
          /\ calcRet' = build_change_summary(tblA, target_date)
    /\ calcOp' = "build_change_summary"
    /\ UNCHANGED <<tblA, tblB, calcRet2, portalVars, remoteVars, scriptVars>>

DoBuildBondSummary ==
    /\ calcOp = "init"
    /\ \E target_date \in TargetDates :
          /\ refDate' = target_date
          /\ calcRet' = _build_bond_summary(tblA, target_date)
    /\ calcOp' = "_build_bond_summary"
    /\ UNCHANGED <<tblA, tblB, calcRet2, portalVars, remoteVars, scriptVars>>

NextSummary == DoBuildChangeSummary \/ DoBuildBondSummary

SpecSummary == InitSummary /\ [][NextSummary]_vars

\* the reference date of a summary: the target date, or the table's last date
ReferenceDate == IF refDate = None THEN Max(Range(tblA.index)) ELSE refDate.ts

\* the date a lookback window looks back to, said by what the date is: the
\* day before, seven days before, the last day of the previous month, the
\* last day of the previous year, the same day of the previous year (the
\* last day of February for a 29th of February)
LookbackDate(label, today) ==
    CHOOSE L \in {today - k : k \in 1..366} :
        CASE label = "1D"  -> L = today - 1
          [] label = "1W"  -> L = today - 7
          [] label = "MTD" -> /\ civil(L + 1)[3] = 1
                              /\ civil(L + 1)[2] = civil(today)[2]
                              /\ civil(L + 1)[1] = civil(today)[1]
          [] label = "YTD" -> civil(L) = <<civil(today)[1] - 1, 12, 31>>
          [] label = "YoY" -> /\ civil(L)[1] = civil(today)[1] - 1
                              /\ civil(L)[2] = civil(today)[2]
                              /\ \/ civil(L)[3] = civil(today)[3]
                                 \/ /\ civil(today)[2] = 2 /\ civil(today)[3] = 29
                                    /\ civil(L)[3] = 28

\* the value of an instrument at a date: the cell of its column in the latest
\* row at or before the date; missing without such a row or such a column
ValueAt(df, key, d) ==
    IF key \notin Range(df.columns) THEN NaN
    ELSE IF \A i \in 1..Len(df.index) : df.index[i] > d THEN NaN
    ELSE CellAt(df, Max({x \in Range(df.index) : x <= d}), key)

\* the lookback dates of every reference date a summary can have
LookbackDates ==
    [today \in SummaryDates \cup {t.ts : t \in TargetDates} |->
        [label \in Range(ref_labels) |-> LookbackDate(label, today)]]

\* the lookback date of every window of this summary
Lookbacks == LookbackDates[ReferenceDate]

DeltaIsRight(row, key, lookbacks) ==
    /\ row["level"] = ValueAt(tblA, key, ReferenceDate)
    /\ \A label \in Range(ref_labels) :
          LET cur == ValueAt(tblA, key, ReferenceDate)
              ref == ValueAt(tblA, key, lookbacks[label])
          IN  IF cur = NaN \/ ref = NaN THEN row[label] = NaN
              ELSE row[label] = Num((cur.v - ref.v) * 100)

\* C8: in both summaries, for every instrument and every lookback window the
\* delta is (value at the reference date - value at the lookback date) x 100
\* basis points, and it is missing (never zero) whenever either value is
\* missing or the instrument has no column in the table.
C8_DeltaIsDifferenceInBasisPoints ==
    /\ calcOp = "build_change_summary" =>
          LET lookbacks == Lookbacks
          IN  \A i \in 1..Len(ordered_codes), t \in {2, 10} :
                 DeltaIsRight(calcRet[ordered_codes[i]][t],
                              col_key(ordered_codes[i], t), lookbacks)
    /\ calcOp = "_build_bond_summary" =>
          /\ DOMAIN calcRet = Range(tblA.columns)
          /\ LET lookbacks == Lookbacks
             IN  \A col \in Range(tblA.columns) : DeltaIsRight(calcRet[col], col, lookbacks)

\* 4.15 on 2026-02-18 against 4.12 on 2026-02-17 gives +3.00 bp for 1D, and
\* the instruments without a column (KR, 2Y) have missing deltas
C8_Witness ==
    /\ calcOp = "build_change_summary"
    /\ refDate = [ts |-> Timestamp(2026, 2, 18)]
    /\ tblA.columns = <<"US_10Y">>
    /\ tblA.index = <<Timestamp(2026, 2, 17), Timestamp(2026, 2, 18)>>
    /\ tblA.data = <<<<Num(412)>>, <<Num(415)>>>>
    /\ calcRet["US"][10]["1D"] = Num(300)
    /\ calcRet["US"][10]["YoY"] = NaN
    /\ calcRet["KR"][10]["1D"] = NaN

(***************************************************************************)
(* BondSummary.collect: one browser, the navigation, the date range, then  *)
(* the three batches of _BOND_SUMMARY_BATCHES one after the other on the   *)
(* same page, the merge of the downloaded files, and driver.quit().        *)
(* Checkbox chkAnnItm_input_n is the number n.  TreasurySummary.collect    *)
(* runs the same navigation and date range, then one selection, one export *)
(* and the save of the retrieved file.                                     *)
(***************************************************************************)
_BOND_SUMMARY_BATCHES ==
    <<[name |-> "A", ids |-> <<0, 1, 2, 3, 4, 5>>],
      [name |-> "B", ids |-> <<6, 7, 8, 9, 10, 11>>],
      [name |-> "C", ids |-> <<12, 13, 14, 15, 16, 17>>]>>

_BOND_SUMMARY_INIT_UNCHECK == <<16, 14, 10, 11, 2>>

\* the checkboxes a freshly loaded portal page shows checked
PageDefaultChecked == Range(_BOND_SUMMARY_INIT_UNCHECK)

BatchNames == {_BOND_SUMMARY_BATCHES[i].name : i \in 1..Len(_BOND_SUMMARY_BATCHES)}

\* _wait_for_download(save_dir, cwd, timeout=30)
timeout == 30

\* the paths _wait_for_download looks at, in its order
candidate_paths == <<"save_dir", "cwd", "cwd/data/raw">>

\* the steps of _navigate_to_period_tab
nav_steps ==
    <<"get", "frame_fraAMAKMain", "genLv1_0_imgLv1", "genLv1_0_genLv2_0_txtLv2",
      "frame_maincontent", "tabContents1_tab_tabs2", "frame_body">>

\* _set_checkbox: click when is_selected() differs from what is wanted; when
\* find_element does not find the checkbox the exception is swallowed
_set_checkbox(state, cid, want) ==
    IF cid \in absent THEN state
    ELSE IF (cid \in state) # want
    THEN (IF cid \in state THEN state \ {cid} ELSE state \cup {cid})
    ELSE state

\* for cid in ids: _set_checkbox(driver, cid, want)
RECURSIVE set_checkboxes(_, _, _)
set_checkboxes(state, ids, want) ==
    IF ids = << >> THEN state
    ELSE set_checkboxes(_set_checkbox(state, Head(ids), want), Tail(ids), want)

\* TreasurySummary._UNCHECK and TreasurySummary._CHECK
_UNCHECK == <<10, 11, 14, 16>>

_CHECK == <<1, 2, 4, 5, 6>>

Collectors == {"BondSummary", "TreasurySummary"}

\* the pages met: every checkbox there, or chkAnnItm_input_1 not there
AbsentChoices == {{}, {1}}

\* the selection being collected: the running batch of BondSummary, the one
\* selection of TreasurySummary
batch == IF collector = "TreasurySummary" THEN [name |-> "T", ids |-> _CHECK]
         ELSE _BOND_SUMMARY_BATCHES[batchIdx]

\* an entry of the log: the step and the selection it belongs to
Step(step, selection) == [step |-> step, batch |-> selection]

NoException == [step |-> "none", batch |-> "none"]

InitPortal ==
    /\ tblA = EmptyTable
    /\ tblB = EmptyTable
    /\ refDate = 0
    /\ calcOp = "idle"
    /\ calcRet = None
    /\ calcRet2 = None
    /\ pc = "start"
    /\ nav = 0
    /\ sessions = 0
    /\ driverOpen = FALSE
    /\ quits = 0
    /\ checked = {}
    /\ batchIdx = 0
    /\ polls = 0
    /\ dl = 0
    /\ files \in [1..Len(candidate_paths) -> {"absent", "stale"}]
    /\ inflight = {}
    /\ exports = << >>
    /\ destFiles = [b \in BatchNames |-> "absent"]
    /\ batch_files = << >>
    /\ raisedIn = NoException
    /\ ret = "none"
    /\ final = << >>
    /\ collector \in Collectors
    /\ absent \in AbsentChoices
    /\ log = << >>
    /\ RemoteIdle
    /\ ScriptIdle

\* driver = webdriver.Chrome(...)
LaunchDriver ==
    /\ pc = "start"
    /\ sessions' = sessions + 1
    /\ driverOpen' = TRUE
    /\ nav' = 1
    /\ pc' = "navigate"
    /\ UNCHANGED <<calcVars, remoteVars, scriptVars, collector, absent, log,
                   quits, checked, batchIdx, polls, dl, files, inflight,
                   exports, destFiles, batch_files, raisedIn, ret, final>>

\* webdriver.Chrome(...) raises: outside the try, the error leaves collect
LaunchDriverRaises ==
    /\ pc = "start"
    /\ ret' = "raised"
    /\ pc' = "done"
    /\ UNCHANGED <<calcVars, remoteVars, scriptVars, collector, absent, log,
                   nav, sessions, driverOpen, quits, checked, batchIdx, polls,
                   dl, files, inflight, exports, destFiles, batch_files, raisedIn, final>>

\* one step of _navigate_to_period_tab completes
NavigateStep ==
    /\ pc = "navigate"
    /\ checked' = IF nav_steps[nav] = "get" THEN PageDefaultChecked ELSE checked
    /\ IF nav = Len(nav_steps)
       THEN pc' = "set_date_range" /\ nav' = 0
       ELSE pc' = pc /\ nav' = nav + 1
    /\ log' = Append(log, Step(nav_steps[nav], "none"))
    /\ UNCHANGED <<calcVars, remoteVars, scriptVars, collector, absent,
                   sessions, driverOpen, quits, batchIdx, polls, dl, files,
                   inflight, exports, destFiles, batch_files, raisedIn, ret, final>>

\* _set_date_range completes
SetDateRange ==
    /\ pc = "set_date_range"
    /\ pc' = "init_uncheck"
    /\ log' = Append(log, Step("set_date_range", "none"))
    /\ UNCHANGED <<calcVars, remoteVars, scriptVars, collector, absent,
                   nav, sessions, driverOpen, quits, checked, batchIdx, polls,
                   dl, files, inflight, exports, destFiles, batch_files, raisedIn, ret,
                   final>>

InitUncheckThenExport ==
    /\ collector = "BondSummary"
    /\ pc = "init_uncheck"
    /\ checked' = set_checkboxes(checked, _BOND_SUMMARY_INIT_UNCHECK, FALSE)
    /\ batch_files' = << >>
    /\ batchIdx' = 1
    /\ pc' = "imgExcel"
    /\ log' = Append(log, Step("init_uncheck", "none"))
    /\ UNCHANGED <<calcVars, remoteVars, scriptVars, collector, absent,
                   nav, sessions, driverOpen, quits, polls, dl, files,
                   inflight, exports, destFiles, raisedIn, ret, final>>

\* for cid in _BOND_SUMMARY_INIT_UNCHECK: _set_checkbox(driver, cid, False)
InitUncheck ==
    /\ collector = "BondSummary"
    /\ pc = "init_uncheck"
    /\ checked' = set_checkboxes(checked, _BOND_SUMMARY_INIT_UNCHECK, FALSE)
    /\ batch_files' = << >>
    /\ batchIdx' = 1
    /\ pc' = "check"
    /\ log' = Append(log, Step("init_uncheck", "none"))
    /\ UNCHANGED <<calcVars, remoteVars, scriptVars, collector, absent,
                   nav, sessions, driverOpen, quits, polls, dl, files,
                   inflight, exports, destFiles, raisedIn, ret, final>>

\* for cid in bids: _set_checkbox(driver, cid, True)
BatchCheck ==
    /\ pc = "check"
    /\ checked' = set_checkboxes(checked, batch.ids, TRUE)
    /\ pc' = "image4"
    /\ log' = Append(log, Step("check", batch.name))
    /\ UNCHANGED <<calcVars, remoteVars, scriptVars, collector, absent,
                   nav, sessions, driverOpen, quits, batchIdx, polls, dl,
                   files, inflight, exports, destFiles, batch_files, raisedIn, ret, final>>

\* _safe_click(driver, wait, By.ID, "image4")
ClickSearch ==
    /\ pc = "image4"
    /\ pc' = "imgExcel"
    /\ log' = Append(log, Step("image4", batch.name))
    /\ UNCHANGED <<calcVars, remoteVars, scriptVars, collector, absent,
                   nav, sessions, driverOpen, quits, checked, batchIdx, polls,
                   dl, files, inflight, exports, destFiles, batch_files, raisedIn, ret,
                   final>>

\* _safe_click(driver, wait, By.ID, "imgExcel"): the export of the batch
ClickExcel ==
    /\ pc = "imgExcel"
    /\ exports' = Append(exports,
                         [session |-> sessions, batch |-> batch.name, checked |-> checked])
    /\ inflight' = inflight \cup {batch.name}
    /\ polls' = 0
    /\ pc' = "wait_for_download"
    /\ log' = Append(log, Step("imgExcel", batch.name))
    /\ UNCHANGED <<calcVars, remoteVars, scriptVars, collector, absent,
                   nav, sessions, driverOpen, quits, checked, batchIdx, dl,
                   files, destFiles, batch_files, raisedIn, ret, final>>

\* a step that waits for its element or frame (WebDriverWait(driver, 30)),
\* driver.get or switch_to.frame raises: control goes to collect's except
StepRaises ==
    /\ pc \in {"navigate", "set_date_range", "image4", "imgExcel"}
    /\ raisedIn' = [step  |-> IF pc = "navigate" THEN nav_steps[nav] ELSE pc,
                    batch |-> IF pc \in {"image4", "imgExcel"} THEN batch.name ELSE "none"]
    /\ pc' = "except"
    /\ UNCHANGED <<calcVars, remoteVars, scriptVars, collector, absent, log,
                   nav, sessions, driverOpen, quits, checked, batchIdx, polls,
                   dl, files, inflight, exports, destFiles, batch_files, ret, final>>

\* the browser finishes the download of an export into the download
\* directory (save_dir); when the file name is taken there the browser
\* writes under another name, which nobody looks at
DownloadCompletes ==
    /\ driverOpen
    /\ \E b \in inflight :
          /\ inflight' = inflight \ {b}
          /\ files' = IF files[1] = "absent" THEN [files EXCEPT ![1] = b] ELSE files
    /\ UNCHANGED <<calcVars, remoteVars, scriptVars, collector, absent, log,
                   pc, nav, sessions, driverOpen, quits, checked, batchIdx,
                   polls, dl, exports, destFiles, batch_files, raisedIn, ret, final>>

ExistingPaths == {p \in 1..Len(candidate_paths) : files[p] # "absent"}

\* _wait_for_download: a poll finds a candidate, the first in the order
PollFinds ==
    /\ pc = "wait_for_download"
    /\ ExistingPaths # {}
    /\ dl' = Min(ExistingPaths)
    /\ pc' = "rename"
    /\ log' = Append(log, Step("download", batch.name))
    /\ UNCHANGED <<calcVars, remoteVars, scriptVars, collector, absent,
                   nav, sessions, driverOpen, quits, checked, batchIdx, polls,
                   files, inflight, exports, destFiles, batch_files, raisedIn, ret, final>>

PollMissesForever ==
    /\ collector = "BondSummary"
    /\ pc = "wait_for_download"
    /\ ExistingPaths = {}
    /\ polls' = (polls + 1) % timeout
    /\ UNCHANGED <<calcVars, remoteVars, scriptVars, collector, absent, log,
                   nav, sessions, driverOpen, quits, checked, batchIdx, files, dl, pc,
                   inflight, exports, destFiles, batch_files, raisedIn, ret, final>>

\* _wait_for_download: a poll finds nothing; after `timeout` polls it returns
\* None and the batch is skipped
PollMisses ==
    /\ collector = "BondSummary"
    /\ pc = "wait_for_download"
    /\ ExistingPaths = {}
    /\ polls' = polls + 1
    /\ IF polls + 1 = timeout
       THEN dl' = 0 /\ pc' = "uncheck"
       ELSE dl' = dl /\ pc' = pc
    /\ UNCHANGED <<calcVars, remoteVars, scriptVars, collector, absent, log,
                   nav, sessions, driverOpen, quits, checked, batchIdx, files,
                   inflight, exports, destFiles, batch_files, raisedIn, ret, final>>

\* os.remove(dest) if it exists; os.rename(dl, dest); batch_files.append
Rename ==
    /\ collector = "BondSummary"
    /\ pc = "rename"
    /\ destFiles' = [destFiles EXCEPT ![batch.name] = files[dl]]
    /\ files' = [files EXCEPT ![dl] = "absent"]
    /\ batch_files' = Append(batch_files, batch.name)
    /\ pc' = "uncheck"
    /\ UNCHANGED <<calcVars, remoteVars, scriptVars, collector, absent, log,
                   nav, sessions, driverOpen, quits, checked, batchIdx, polls,
                   dl, inflight, exports, raisedIn, ret, final>>

BatchUncheckAfterDownloadOnly ==
    /\ pc = "uncheck"
    /\ checked' = IF dl # 0 THEN set_checkboxes(checked, batch.ids, FALSE) ELSE checked
    /\ IF batchIdx < Len(_BOND_SUMMARY_BATCHES)
       THEN batchIdx' = batchIdx + 1 /\ pc' = "check"
       ELSE batchIdx' = batchIdx /\ pc' = "merge"
    /\ log' = Append(log, Step("uncheck", batch.name))
    /\ UNCHANGED <<calcVars, remoteVars, scriptVars, collector, absent,
                   nav, sessions, driverOpen, quits, polls, dl, files,
                   inflight, exports, destFiles, batch_files, raisedIn, ret, final>>

\* for cid in bids: _set_checkbox(driver, cid, False); next batch or merge
BatchUncheck ==
    /\ pc = "uncheck"
    /\ checked' = set_checkboxes(checked, batch.ids, FALSE)
    /\ IF batchIdx < Len(_BOND_SUMMARY_BATCHES)
       THEN batchIdx' = batchIdx + 1 /\ pc' = "check"
       ELSE batchIdx' = batchIdx /\ pc' = "merge"
    /\ log' = Append(log, Step("uncheck", batch.name))
    /\ UNCHANGED <<calcVars, remoteVars, scriptVars, collector, absent,
                   nav, sessions, driverOpen, quits, polls, dl, files,
                   inflight, exports, destFiles, batch_files, raisedIn, ret, final>>

\* TreasurySummary.collect: for cid in self._UNCHECK: _set_checkbox(.., False)
\* then for cid in self._CHECK: _set_checkbox(.., True)
TsSelect ==
    /\ collector = "TreasurySummary"
    /\ pc = "init_uncheck"
    /\ checked' = set_checkboxes(set_checkboxes(checked, _UNCHECK, FALSE), _CHECK, TRUE)
    /\ pc' = "image4"
    /\ log' = Append(log, Step("check", batch.name))
    /\ UNCHANGED <<calcVars, remoteVars, scriptVars, collector, absent,
                   nav, sessions, driverOpen, quits, batchIdx, polls, dl, files,
                   inflight, exports, destFiles, batch_files, raisedIn, ret, final>>

\* TreasurySummary.collect: a poll of _wait_for_download finds nothing; after
\* `timeout` polls it returns None and collect returns False
TsPollMisses ==
    /\ collector = "TreasurySummary"
    /\ pc = "wait_for_download"
    /\ ExistingPaths = {}
    /\ polls' = polls + 1
    /\ IF polls + 1 = timeout
       THEN dl' = 0 /\ ret' = "False" /\ pc' = "finally"
       ELSE dl' = dl /\ ret' = ret /\ pc' = pc
    /\ UNCHANGED <<calcVars, remoteVars, scriptVars, collector, absent, log,
                   nav, sessions, driverOpen, quits, checked, batchIdx, files,
                   inflight, exports, destFiles, batch_files, raisedIn, final>>

\* TreasurySummary.collect: the download is parsed and written to
\* treasury_summary.xlsx (or renamed to treasury_summary.xls), the download
\* file is gone; return True
TsSave ==
    /\ collector = "TreasurySummary"
    /\ pc = "rename"
    /\ final' = <<files[dl]>>
    /\ files' = [files EXCEPT ![dl] = "absent"]
    /\ ret' = "True"
    /\ pc' = "finally"
    /\ UNCHANGED <<calcVars, remoteVars, scriptVars, collector, absent, log,
                   nav, sessions, driverOpen, quits, checked, batchIdx, polls,
                   dl, inflight, exports, destFiles, batch_files, raisedIn>>

\* if not batch_files: return False
ReturnNoFiles ==
    /\ pc = "merge"
    /\ batch_files = << >>
    /\ ret' = "False"
    /\ pc' = "finally"
    /\ UNCHANGED <<calcVars, remoteVars, scriptVars, collector, absent, log,
                   nav, sessions, driverOpen, quits, checked, batchIdx, polls,
                   dl, files, inflight, exports, destFiles, batch_files, raisedIn, final>>

\* parse the batch files, merge them on Date, write bond_summary.xlsx, remove
\* the batch files; return True
MergeAndSave ==
    /\ pc = "merge"
    /\ batch_files # << >>
    /\ final' = [i \in 1..Len(batch_files) |-> destFiles[batch_files[i]]]
    /\ destFiles' = [b \in BatchNames |->
                        IF b \in Range(batch_files) THEN "absent" ELSE destFiles[b]]
    /\ ret' = "True"
    /\ pc' = "finally"
    /\ UNCHANGED <<calcVars, remoteVars, scriptVars, collector, absent, log,
                   nav, sessions, driverOpen, quits, checked, batchIdx, polls,
                   dl, files, inflight, exports, batch_files, raisedIn>>

\* except Exception: ... return False
Except ==
    /\ pc = "except"
    /\ ret' = "False"
    /\ pc' = "finally"
    /\ UNCHANGED <<calcVars, remoteVars, scriptVars, collector, absent, log,
                   nav, sessions, driverOpen, quits, checked, batchIdx, polls,
                   dl, files, inflight, exports, destFiles, batch_files, raisedIn, final>>

\* finally: driver.quit()
Finally ==
    /\ pc = "finally"
    /\ driverOpen' = FALSE
    /\ quits' = quits + 1
    /\ inflight' = {}
    /\ pc' = "done"
    /\ UNCHANGED <<calcVars, remoteVars, scriptVars, collector, absent, log,
                   nav, sessions, checked, batchIdx, polls, dl, files,
                   exports, destFiles, batch_files, raisedIn, ret, final>>

NextPortal ==
    \/ LaunchDriver
    \/ LaunchDriverRaises
    \/ NavigateStep
    \/ SetDateRange
    \/ InitUncheck
    \/ BatchCheck
    \/ ClickSearch
    \/ ClickExcel
    \/ StepRaises
    \/ DownloadCompletes
    \/ PollFinds
    \/ PollMisses
    \/ Rename
    \/ BatchUncheck
    \/ TsSelect
    \/ TsPollMisses
    \/ TsSave
    \/ ReturnNoFiles
    \/ MergeAndSave
    \/ Except
    \/ Finally

SpecPortal == InitPortal /\ [][NextPortal]_vars

\* the loop of _wait_for_download keeps running: a poll that can be made is
\* made
SpecPortalLive ==
    SpecPortal /\ WF_vars(PollFinds) /\ WF_vars(PollMisses) /\ WF_vars(TsPollMisses)

\* _wait_for_download has returned in this step
DownloadWaitReturns == pc = "wait_for_download" /\ pc' # "wait_for_download"

\* C26: _wait_for_download always returns; it makes at most `timeout` polls;
\* it returns in the first poll at which a candidate path exists, with the
\* first existing candidate in the order save_dir, cwd, cwd/data/raw; and it
\* returns None only after `timeout` polls that found no candidate.
C26_WaitForDownloadTerminates ==
    /\ [](pc = "wait_for_download" => polls < timeout)
    /\ [][DownloadWaitReturns =>
             IF ExistingPaths # {} THEN dl' = Min(ExistingPaths)
             ELSE dl' = 0 /\ polls' = timeout]_vars
    /\ [][(pc = "wait_for_download" /\ ExistingPaths # {} /\ polls' # polls) => FALSE]_vars
    /\ (pc = "wait_for_download") ~> (pc # "wait_for_download")

\* the wait returned the second candidate path while the third exists too
C26_Witness ==
    /\ pc = "rename"
    /\ dl = 2
    /\ files[1] = "absent"
    /\ files[3] # "absent"

ExportedBatches == {exports[i].batch : i \in 1..Len(exports)}

\* C9: when a UI step of batch B never completes (its wait times out),
\* collect still runs batch C and returns a successful result holding the
\* data of batches A and C.
C9_FailedBatchIsSkipped ==
    (pc = "done" /\ raisedIn.batch = "B") =>
        /\ "C" \in ExportedBatches
        /\ ret = "True"
        /\ {"A", "C"} \subseteq Range(final)

\* the checkbox ids of the selection with the given name
IdsOf(name) ==
    IF name = "T" THEN Range(_CHECK)
    ELSE Range((CHOOSE b \in Range(_BOND_SUMMARY_BATCHES) : b.name = name).ids)

\* C22: on a page that shows every catalogued checkbox, loaded with the
\* default selection, the boxes checked at the moment of each export are
\* exactly the ids of the batch exported: no default-checked box and no box
\* of another batch, for every batch, also after an earlier batch's download
\* failed.
C22_ExportSelectsExactlyItsBatch ==
    absent = {} =>
        \A i \in 1..Len(exports) : exports[i].checked = IdsOf(exports[i].batch)

\* the third batch was exported after the download of the first timed out
\* and the second was saved
C22_Witness ==
    /\ absent = {}
    /\ collector = "BondSummary"
    /\ Len(exports) = 3
    /\ exports[3].batch = "C"
    /\ batch_files = <<"B">>

\* C29: the file saved as a batch's file is the file of that batch's own
\* export, never the download of another batch or a file that was in a
\* candidate path before the run.
C29_BatchFileIsOwnExport ==
    \A b \in BatchNames : destFiles[b] \in {"absent", b}

\* every portal session is closed exactly once when collect has ended
PortalSessionClosedOnce ==
    pc = "done" => (~driverOpen /\ quits = sessions /\ sessions <= 1)

\* C10: no browser session performs the export of more than one batch.
C10_OneSessionPerBatch ==
    \A i, j \in 1..Len(exports) :
        exports[i].session = exports[j].session => exports[i].batch = exports[j].batch

\* the steps of a portal session in their fixed order: menu opened, section
\* selected, period tab opened, data frame entered, date range set,
\* selection applied, exported, file retrieved
SessionOrder ==
    <<"genLv1_0_imgLv1", "genLv1_0_genLv2_0_txtLv2", "tabContents1_tab_tabs2",
      "frame_body", "set_date_range", "check", "imgExcel", "download">>

PlaceInOrder(step) == CHOOSE k \in 1..Len(SessionOrder) : SessionOrder[k] = step

\* the steps of the session order the running session has completed
SessionSteps == SelectSeq(log, LAMBDA e : e.step \in Range(SessionOrder))

\* C19: in a portal session every completed step of the fixed order comes
\* after its predecessor in that order has completed (for an export and a
\* retrieved file: the predecessor of the same selection), the steps up to
\* the date range complete at most once, and every export comes after the
\* date range was set and after the selection of its batch was applied.
C19_StepsRunInFixedOrder ==
    LET steps == SessionSteps
    IN  /\ \A i \in 1..Len(steps) :
              PlaceInOrder(steps[i].step) > 1 =>
                 \E j \in 1..(i - 1) :
                    /\ steps[j].step = SessionOrder[PlaceInOrder(steps[i].step) - 1]
                    /\ PlaceInOrder(steps[i].step) > 6 => steps[j].batch = steps[i].batch
        /\ \A i, j \in 1..Len(steps) :
              (i # j /\ steps[i].step = steps[j].step) => PlaceInOrder(steps[i].step) > 5
        /\ \A i \in 1..Len(exports) :
              \E j, k \in 1..Len(steps) :
                 /\ j < k
                 /\ steps[j].step = "set_date_range"
                 /\ steps[k] = Step("check", exports[i].batch)
                 /\ \E x \in (k + 1)..Len(steps) : steps[x] = Step("imgExcel", exports[i].batch)
        /\ Len(exports) = Cardinality({i \in 1..Len(steps) : steps[i].step = "imgExcel"})

\* a BondSummary session ran every step for its three batches, retrieved the
\* three files and returned True
C19_Witness ==
    /\ pc = "done"
    /\ ret = "True"
    /\ collector = "BondSummary"
    /\ \A b \in BatchNames : \E i \in 1..Len(log) : log[i] = Step("download", b)

\* the checkboxes a completed step called _set_checkbox on
StepIds(e) ==
    IF e.step = "init_uncheck" THEN Range(_BOND_SUMMARY_INIT_UNCHECK)
    ELSE IF e.step \in {"check", "uncheck"} THEN
            (IF e.batch = "T" THEN Range(_UNCHECK) \cup Range(_CHECK)
             ELSE UNION {Range(_BOND_SUMMARY_BATCHES[i].ids) :
                            i \in {k \in 1..Len(_BOND_SUMMARY_BATCHES) :
                                      _BOND_SUMMARY_BATCHES[k].name = e.batch}})
    ELSE {}

\* the session is in its terminal Failed state, or on its way there with no
\* step of the session left to run
SessionFailed ==
    /\ pc \in {"except", "finally", "done"}
    /\ pc \in {"finally", "done"} => ret = "False"

\* a step whose wait timed out or whose frame was not there ends the session
WaitedStepFailsSession == raisedIn.step # "none" => SessionFailed

\* C20: when the element or frame of a step of a portal session is not
\* available (a wait times out, or a checkbox of the selection is not on the
\* page) the session fails: that step is the last one the session runs, no
\* export follows it, and collect returns False.
C20_UnavailableTargetFailsSession ==
    /\ WaitedStepFailsSession
    /\ \A i \in 1..Len(log) :
          StepIds(log[i]) \cap absent # {} => (i = Len(log) /\ SessionFailed)

(***************************************************************************)
(* GlobalTreasury (collector/investing.py): collect walks BOND_SLUGS, for  *)
(* each instrument _get_pair_id then _fetch_history, in one browser.  An   *)
(* instrument is named by its column; its slug stands in one-to-one        *)
(* relation with it.                                                       *)
(***************************************************************************)
BOND_SLUGS ==
    <<"US_2Y", "US_3Y", "US_5Y", "US_10Y", "US_20Y", "US_30Y",
      "DE_2Y", "DE_3Y", "DE_5Y", "DE_10Y", "DE_20Y", "DE_30Y",
      "GB_2Y", "GB_3Y", "GB_5Y", "GB_10Y", "GB_20Y", "GB_30Y",
      "JP_2Y", "JP_3Y", "JP_5Y", "JP_10Y", "JP_20Y", "JP_30Y",
      "CN_2Y", "CN_3Y", "CN_5Y", "CN_10Y", "CN_20Y", "CN_30Y">>

\* the part of the catalog a run of the model walks
MaxCatalog == 3

Catalog == SubSeq(BOND_SLUGS, 1, MaxCatalog)

\* collect calls made on one instance
MaxCollects == 2

\* the instrument ids the site serves in a page
PairIds == {[id |-> 23705], [id |-> 23706]}

\* the series _fetch_history can return with data
SeriesChoices ==
    {[index |-> <<1>>, values |-> <<Num(410)>>],
     [index |-> <<2, 4>>, values |-> <<Num(412), Num(415)>>]}

slug == Catalog[slugIdx]

\* pd.DataFrame(all_series): the columns in insertion order over the sorted
\* union of the series' dates, NaN where a series has no value
DataFrame(series_dict) ==
    LET ix == SortedSeq(UNION {Range(series_dict[j].series.index) :
                                  j \in 1..Len(series_dict)})
    IN  [index   |-> ix,
         columns |-> [j \in 1..Len(series_dict) |-> series_dict[j].col],
         data    |-> [i \in 1..Len(ix) |-> [j \in 1..Len(series_dict) |->
                        IF ix[i] \in Range(series_dict[j].series.index)
                        THEN series_dict[j].series.values[
                                 Loc(series_dict[j].series.index, ix[i])]
                        ELSE NaN]]]

InitRemote ==
    /\ tblA = EmptyTable
    /\ tblB = EmptyTable
    /\ refDate = 0
    /\ calcOp = "idle"
    /\ calcRet = None
    /\ calcRet2 = None
    /\ PortalIdle
    /\ ScriptIdle
    /\ rpc = "start"
    /\ slugIdx = 0
    /\ _pair_id_cache = << >>
    /\ pair_id = None
    /\ all_series = << >>
    /\ browser = "none"
    /\ pageFetches = [s \in Range(Catalog) |-> 0]
    /\ attempted = {}
    /\ lastResolve = [slug |-> "none", ret |-> None, what |-> "none"]
    /\ collects = 0
    /\ remoteRet = "none"

\* collect is called (again) on the instance: _start_browser()
StartBrowser ==
    /\ rpc \in {"start", "done"}
    /\ collects < MaxCollects
    /\ collects' = collects + 1
    /\ browser' = "open"
    /\ all_series' = << >>
    /\ attempted' = {}
    /\ slugIdx' = 1
    /\ pair_id' = None
    /\ remoteRet' = "none"
    /\ rpc' = "resolve"
    /\ UNCHANGED <<calcVars, portalVars, scriptVars, _pair_id_cache, pageFetches, lastResolve>>

\* the calls of _start_browser, in order
start_browser_calls == <<"sync_playwright().start", "chromium.launch", "new_context", "new_page">>

\* collect is called (again) and one of the calls of _start_browser raises:
\* _start_browser() stands before the try, so the error leaves collect with
\* no _stop_browser(); the browser is running once chromium.launch returned
StartBrowserRaises ==
    /\ rpc \in {"start", "done"}
    /\ collects < MaxCollects
    /\ collects' = collects + 1
    /\ \E k \in 1..Len(start_browser_calls) :
          browser' = IF k > 2 THEN "open" ELSE "none"
    /\ all_series' = << >>
    /\ attempted' = {}
    /\ slugIdx' = 0
    /\ pair_id' = None
    /\ remoteRet' = Raised("Error")
    /\ rpc' = "done"
    /\ UNCHANGED <<calcVars, portalVars, scriptVars, _pair_id_cache, pageFetches, lastResolve>>

\* `continue`, or the end of the loop body: the next instrument, or the end
\* of the walk
NextInstrument ==
    IF slugIdx = Len(Catalog)
    THEN slugIdx' = slugIdx /\ rpc' = "finally"
    ELSE slugIdx' = slugIdx + 1 /\ rpc' = "resolve"

ResolveCachedRefetch ==
    /\ rpc = "resolve"
    /\ slug \in DOMAIN _pair_id_cache
    /\ attempted' = attempted \cup {slug}
    /\ \E found \in PairIds :
          /\ pair_id' = found
          /\ lastResolve' = [slug |-> slug, ret |-> found, what |-> "page"]
    /\ pageFetches' = [pageFetches EXCEPT ![slug] = @ + 1]
    /\ rpc' = "fetch"
    /\ UNCHANGED <<calcVars, portalVars, scriptVars, slugIdx, _pair_id_cache, all_series, browser,
                   collects, remoteRet>>

\* _get_pair_id: the slug is in the cache
ResolveCached ==
    /\ rpc = "resolve"
    /\ slug \in DOMAIN _pair_id_cache
    /\ attempted' = attempted \cup {slug}
    /\ pair_id' = _pair_id_cache[slug]
    /\ lastResolve' = [slug |-> slug, ret |-> _pair_id_cache[slug], what |-> "cache"]
    /\ rpc' = "fetch"
    /\ UNCHANGED <<calcVars, portalVars, scriptVars, slugIdx, _pair_id_cache, all_series, browser,
                   pageFetches, collects, remoteRet>>

\* _get_pair_id returns None: the page answers 404, page.goto raises, or the
\* page holds no instrument id; collect skips the instrument
ResolveFails ==
    /\ rpc = "resolve"
    /\ slug \notin DOMAIN _pair_id_cache
    /\ \E what \in {"http_404", "goto_raised", "no_pair_id"} :
          lastResolve' = [slug |-> slug, ret |-> None, what |-> what]
    /\ attempted' = attempted \cup {slug}
    /\ pageFetches' = [pageFetches EXCEPT ![slug] = @ + 1]
    /\ pair_id' = None
    /\ NextInstrument
    /\ UNCHANGED <<calcVars, portalVars, scriptVars, _pair_id_cache, all_series, browser, collects,
                   remoteRet>>

\* _get_pair_id: page.goto succeeds and page.content(), outside the try,
\* raises; the error leaves _get_pair_id and the loops of collect
ResolveContentRaises ==
    /\ rpc = "resolve"
    /\ slug \notin DOMAIN _pair_id_cache
    /\ lastResolve' = [slug |-> slug, ret |-> Raised("Error"), what |-> "content_raised"]
    /\ attempted' = attempted \cup {slug}
    /\ pageFetches' = [pageFetches EXCEPT ![slug] = @ + 1]
    /\ rpc' = "finally_raise"
    /\ UNCHANGED <<calcVars, portalVars, scriptVars, slugIdx, _pair_id_cache, pair_id, all_series,
                   browser, collects, remoteRet>>

\* _get_pair_id: the page holds an instrument id, which goes to the cache
ResolveFound ==
    /\ rpc = "resolve"
    /\ slug \notin DOMAIN _pair_id_cache
    /\ \E found \in PairIds :
          /\ _pair_id_cache' = [s \in DOMAIN _pair_id_cache \cup {slug} |->
                                   IF s = slug THEN found ELSE _pair_id_cache[s]]
          /\ pair_id' = found
          /\ lastResolve' = [slug |-> slug, ret |-> found, what |-> "page"]
    /\ attempted' = attempted \cup {slug}
    /\ pageFetches' = [pageFetches EXCEPT ![slug] = @ + 1]
    /\ rpc' = "fetch"
    /\ UNCHANGED <<calcVars, portalVars, scriptVars, slugIdx, all_series, browser, collects,
                   remoteRet>>

\* _fetch_history returns None (an error, no table) or an empty series
FetchNothing ==
    /\ rpc = "fetch"
    /\ NextInstrument
    /\ UNCHANGED <<calcVars, portalVars, scriptVars, _pair_id_cache, pair_id, all_series, browser,
                   pageFetches, attempted, lastResolve, collects, remoteRet>>

\* _fetch_history returns a series with data: all_series[col] = series
FetchData ==
    /\ rpc = "fetch"
    /\ \E series \in SeriesChoices :
          all_series' = Append(all_series, [col |-> slug, series |-> series])
    /\ NextInstrument
    /\ UNCHANGED <<calcVars, portalVars, scriptVars, _pair_id_cache, pair_id, browser, pageFetches,
                   attempted, lastResolve, collects, remoteRet>>

\* finally: _stop_browser(); then None without data, else the filled table
FinallyReturn ==
    /\ rpc = "finally"
    /\ browser' = "closed"
    /\ remoteRet' = IF all_series = << >> THEN None
                    ELSE fill_calendar(sort_index(DataFrame(all_series)))
    /\ rpc' = "done"
    /\ UNCHANGED <<calcVars, portalVars, scriptVars, slugIdx, _pair_id_cache, pair_id, all_series,
                   pageFetches, attempted, lastResolve, collects>>

\* finally: _stop_browser(); the error raised in the loop leaves collect
FinallyRaise ==
    /\ rpc = "finally_raise"
    /\ browser' = "closed"
    /\ remoteRet' = Raised("Error")
    /\ rpc' = "done"
    /\ UNCHANGED <<calcVars, portalVars, scriptVars, slugIdx, _pair_id_cache, pair_id, all_series,
                   pageFetches, attempted, lastResolve, collects>>

NextRemote ==
    \/ StartBrowser
    \/ StartBrowserRaises
    \/ ResolveCached
    \/ ResolveFails
    \/ ResolveContentRaises
    \/ ResolveFound
    \/ FetchNothing
    \/ FetchData
    \/ FinallyReturn
    \/ FinallyRaise

SpecRemote == InitRemote /\ [][NextRemote]_vars

\* a collect that got through _start_browser has closed its browser when it
\* ends, whether it returns or raises
BrowserClosedAfterTry == (rpc = "done" /\ slugIdx > 0) => browser = "closed"

\* C28: when a collect call has ended, by returning or by propagating an
\* error, no browser that it started is still open.
C28_NoBrowserOpenAfterCollect ==
    rpc = "done" => browser # "open"

\* the columns of the table collect returned
ReturnedColumns == IF IsTable(remoteRet) THEN Range(remoteRet.columns) ELSE {}

\* C11: whatever fails on single instruments, a finished collect whose
\* browser had started has attempted every instrument of the catalog,
\* returns None only when no instrument yielded data, and otherwise returns
\* the table of the instruments that did.
C11_FailureNeverAbortsTheWalk ==
    (rpc = "done" /\ browser = "closed") =>
        /\ attempted = Range(Catalog)
        /\ remoteRet = None <=> all_series = << >>
        /\ all_series # << >> =>
              /\ IsTable(remoteRet)
              /\ ReturnedColumns = {all_series[j].col : j \in 1..Len(all_series)}

\* C14: _get_pair_id reports a page that answers HTTP 404 as "not found"
\* without raising, and reports a failure of the page access (network,
\* challenge) as an outcome the caller can tell apart from "not found",
\* that is, as something else than what it returns for a 404.
C14_TransientFailureDiffersFromNotFound ==
    /\ lastResolve.what = "http_404" => lastResolve.ret = None
    /\ lastResolve.what = "goto_raised" => lastResolve.ret # None

\* C15 as stated: over all calls on one instance, no instrument's page is
\* fetched more than once.
C15_AtMostOneFetchPerInstrument ==
    \A s \in Range(Catalog) : pageFetches[s] <= 1

\* C15, amended: a page is fetched only for an instrument that is not in
\* the cache and has not been attempted in the running collect, one fetch at
\* a time; an identity found in a page is cached; a cached instrument is
\* answered from the cache with that identity and without a fetch; and a
\* cached identity is never changed or evicted.
C15_FetchOnlyUncachedCacheIsStable ==
    [][/\ \A s \in DOMAIN _pair_id_cache :
             s \in DOMAIN _pair_id_cache' /\ _pair_id_cache'[s] = _pair_id_cache[s]
       /\ \A s \in Range(Catalog) :
             pageFetches'[s] # pageFetches[s] =>
                /\ s \notin DOMAIN _pair_id_cache
                /\ s \notin attempted
                /\ pageFetches'[s] = pageFetches[s] + 1
       /\ (lastResolve' # lastResolve /\ lastResolve'.what = "page") =>
             /\ lastResolve'.slug \in DOMAIN _pair_id_cache'
             /\ _pair_id_cache'[lastResolve'.slug] = lastResolve'.ret
       /\ (rpc = "resolve" /\ rpc' = "fetch" /\ slug \in DOMAIN _pair_id_cache) =>
             pair_id' = _pair_id_cache[slug]
      ]_vars

\* in a second collect on the instance, an instrument resolved by the first
\* is answered from the cache, its page fetched once in all, while an
\* instrument that failed before has been fetched again
C15_Witness ==
    /\ collects = 2
    /\ lastResolve.what = "cache"
    /\ pageFetches[lastResolve.slug] = 1
    /\ \E s \in Range(Catalog) : pageFetches[s] = 2

(***************************************************************************)
(* collect_data.py: the collection script.  A CSV file is held as the      *)
(* table written to it (None when the file does not exist).  A run looks   *)
(* at the KOFIA source first and at the global source second.              *)
(***************************************************************************)
\* _load_csv: None when the file does not exist, else the table read
_load_csv(file) == file

empty(df) == Len(df.index) = 0 \/ Len(df.columns) = 0

\* _last_date: None for no table or an empty one, else the last date
_last_date(df) == IF df = None THEN None
                  ELSE IF empty(df) THEN None
                  ELSE [date |-> Max(Range(df.index))]

\* pd.concat([a, b]): the rows of a then the rows of b, over the columns of
\* a followed by the columns only b has, NaN where a row has no such column
concat(a, b) ==
    LET cols == a.columns \o SelectSeq(b.columns, LAMBDA c : c \notin Range(a.columns))
        cell(df, i, c) == IF c \in Range(df.columns) THEN df.data[i][ColLoc(df.columns, c)]
                          ELSE NaN
    IN  [index   |-> a.index \o b.index,
         columns |-> cols,
         data    |-> [i \in 1..(Len(a.index) + Len(b.index)) |->
                        [j \in 1..Len(cols) |->
                            IF i <= Len(a.index) THEN cell(a, i, cols[j])
                            ELSE cell(b, i - Len(a.index), cols[j])]]]

drop_duplicated_keep_first(df) ==
    LET keep == SelectSeq([i \in 1..Len(df.index) |-> i],
                          LAMBDA i : \A k \in 1..(i - 1) : df.index[k] # df.index[i])
    IN  [index   |-> [i \in 1..Len(keep) |-> df.index[keep[i]]],
         columns |-> df.columns,
         data    |-> [i \in 1..Len(keep) |-> df.data[keep[i]]]]

\* merged[~merged.index.duplicated(keep="last")]: of the rows sharing a date
\* only the last stays
drop_duplicated_keep_last(df) ==
    LET keep == SelectSeq([i \in 1..Len(df.index) |-> i],
                          LAMBDA i : \A k \in (i + 1)..Len(df.index) :
                                        df.index[k] # df.index[i])
    IN  [index   |-> [i \in 1..Len(keep) |-> df.index[keep[i]]],
         columns |-> df.columns,
         data    |-> [i \in 1..Len(keep) |-> df.data[keep[i]]]]

\* _merge_save: the table written to the CSV (and returned)
_merge_save(existing, new_df) ==
    IF existing # None /\ ~empty(existing)
    THEN sort_index(drop_duplicated_keep_last(concat(existing, new_df)))
    ELSE sort_index(new_df)

\* end_date = date.today() - timedelta(days=1)
end_date == clock - 1

\* the first day the sources hold data for
FirstDay == Min(Dates)

\* the calendar date of day 0: day d of a run is the date Epoch + d, which
\* makes 2024-02-29 one of the end dates
Epoch == Timestamp(2024, 2, 26)

\* end_date.replace(year=end_date.year - 5), and end_date -
\* timedelta(days=365 * 5) when that raises ValueError (29 February with no
\* 29 February five years earlier)
five_years_before(d) ==
    LET c == civil(Epoch + d)
    IN  IF c[3] > days_in_month(c[1] - 5, c[2]) THEN d - 365 * 5
        ELSE Timestamp(c[1] - 5, c[2], c[3]) - Epoch

start_dt_from_last(existing) ==
    IF _last_date(existing) # None THEN _last_date(existing).date
    ELSE five_years_before(end_date)

\* bs_start_dt / gt_start_dt: the day after the last date of the CSV, or five
\* years before end_date without a last date
start_dt(existing) ==
    IF _last_date(existing) # None THEN _last_date(existing).date + 1
    ELSE five_years_before(end_date)

\* a collect call of the script
Call(name, start, stop) == [collector |-> name, start_date |-> start, end_date |-> stop]

\* the observations the global source holds for [lo, hi]: any non-empty set
\* of trading days in the range, none before FirstDay
SourceData(lo, hi) ==
    {[index   |-> SortedSeq(ds),
      columns |-> <<"US_10Y">>,
      data    |-> [i \in 1..Cardinality(ds) |-> <<Num(400 + SortedSeq(ds)[i])>>]] :
        ds \in (SUBSET {d \in Dates : lo <= d /\ d <= hi}) \ {{}}}

\* the bond CSV as some earlier collection left it: absent, or calendar
\* filled from FirstDay to some last date (today at the latest)
BondCsvStates ==
    {None} \cup
    {[index   |-> date_range(FirstDay, d),
      columns |-> <<Code("KTB", "", 10, "Y")>>,
      data    |-> [i \in 1..(d - FirstDay + 1) |-> <<Num(280)>>]] : d \in Dates}

\* the runs of the script in one behaviour
MaxRuns == 2

InitScript ==
    /\ tblA = EmptyTable
    /\ tblB = EmptyTable
    /\ refDate = 0
    /\ calcOp = "idle"
    /\ calcRet = None
    /\ calcRet2 = None
    /\ PortalIdle
    /\ RemoteIdle
    /\ spc = "ended"
    /\ clock \in Dates
    /\ runs = 0
    /\ bondCsv \in BondCsvStates
    /\ bondCsv # None => Max(Range(bondCsv.index)) <= clock
    /\ globalCsv = None
    /\ gt_existing = None
    /\ df_g = None
    /\ csvAtStart = [bond |-> bondCsv, global |-> globalCsv]
    /\ stepsRun = {}
    /\ scriptExit = "none"
    /\ calls = << >>

\* the script is started, on the same day as the run before or later
StartRun ==
    /\ spc = "ended"
    /\ runs < MaxRuns
    /\ runs' = runs + 1
    /\ \E day \in clock..(MaxDate + 1) : day > FirstDay /\ clock' = day
    /\ csvAtStart' = [bond |-> bondCsv, global |-> globalCsv]
    /\ stepsRun' = {}
    /\ gt_existing' = None
    /\ df_g' = None
    /\ scriptExit' = "none"
    /\ calls' = << >>
    /\ spc' = "kofia"
    /\ UNCHANGED <<calcVars, portalVars, remoteVars, bondCsv, globalCsv>>

\* 1. KOFIA: bs_start_dt > end_date, nothing to collect
KofiaUpToDate ==
    /\ spc = "kofia"
    /\ start_dt(_load_csv(bondCsv)) > end_date
    /\ spc' = "global"
    /\ UNCHANGED <<calcVars, portalVars, remoteVars, calls, clock, runs, bondCsv, globalCsv,
                   gt_existing, df_g, csvAtStart, stepsRun, scriptExit>>

\* 1. KOFIA: bs.collect(start_date=..., end_date=...) on
\* BondSummary.collect(self, target_date=None, headless=True): the call
\* raises TypeError outside any try, and the script ends there
KofiaCollectTypeError ==
    /\ spc = "kofia"
    /\ start_dt(_load_csv(bondCsv)) <= end_date
    /\ stepsRun' = stepsRun \cup {"kofia"}
    /\ scriptExit' = "TypeError"
    /\ spc' = "ended"
    /\ calls' = Append(calls, Call("BondSummary", start_dt(_load_csv(bondCsv)), end_date))
    /\ UNCHANGED <<calcVars, portalVars, remoteVars, clock, runs, bondCsv, globalCsv,
                   gt_existing, df_g, csvAtStart>>

\* 2. Global: gt_start_dt > end_date, nothing to collect
GlobalUpToDate ==
    /\ spc = "global"
    /\ start_dt(_load_csv(globalCsv)) > end_date
    /\ gt_existing' = _load_csv(globalCsv)
    /\ scriptExit' = "ok"
    /\ spc' = "ended"
    /\ UNCHANGED <<calcVars, portalVars, remoteVars, calls, clock, runs, bondCsv, globalCsv,
                   df_g, csvAtStart, stepsRun>>

\* 2. Global: gt.collect(gt_start_str, end_str) returns None, or the
\* calendar-filled table of what the source holds for the range
GlobalCollect ==
    /\ spc = "global"
    /\ start_dt(_load_csv(globalCsv)) <= end_date
    /\ gt_existing' = _load_csv(globalCsv)
    /\ stepsRun' = stepsRun \cup {"global"}
    /\ \/ df_g' = None
       \/ \E data \in SourceData(start_dt(_load_csv(globalCsv)), end_date) :
             df_g' = fill_calendar(data)
    /\ spc' = "global_save"
    /\ calls' = Append(calls, Call("GlobalTreasury", start_dt(_load_csv(globalCsv)), end_date))
    /\ UNCHANGED <<calcVars, portalVars, remoteVars, clock, runs, bondCsv, globalCsv,
                   csvAtStart, scriptExit>>

\* 2. Global: gt.collect raises; nothing catches it and the script ends
GlobalCollectRaises ==
    /\ spc = "global"
    /\ start_dt(_load_csv(globalCsv)) <= end_date
    /\ gt_existing' = _load_csv(globalCsv)
    /\ stepsRun' = stepsRun \cup {"global"}
    /\ scriptExit' = "Error"
    /\ spc' = "ended"
    /\ calls' = Append(calls, Call("GlobalTreasury", start_dt(_load_csv(globalCsv)), end_date))
    /\ UNCHANGED <<calcVars, portalVars, remoteVars, clock, runs, bondCsv, globalCsv,
                   df_g, csvAtStart>>

GlobalSaveAlways ==
    /\ spc = "global_save"
    /\ globalCsv' = IF df_g # None THEN _merge_save(gt_existing, df_g) ELSE EmptyTable
    /\ scriptExit' = "ok"
    /\ spc' = "ended"
    /\ UNCHANGED <<calcVars, portalVars, remoteVars, calls, clock, runs, bondCsv, gt_existing,
                   df_g, csvAtStart, stepsRun>>

\* 2. Global: if df_g is not None: _merge_save(...) else keep the CSV
GlobalSave ==
    /\ spc = "global_save"
    /\ globalCsv' = IF df_g # None THEN _merge_save(gt_existing, df_g) ELSE globalCsv
    /\ scriptExit' = "ok"
    /\ spc' = "ended"
    /\ UNCHANGED <<calcVars, portalVars, remoteVars, calls, clock, runs, bondCsv, gt_existing,
                   df_g, csvAtStart, stepsRun>>

NextScript ==
    \/ StartRun
    \/ KofiaUpToDate
    \/ KofiaCollectTypeError
    \/ GlobalUpToDate
    \/ GlobalCollect
    \/ GlobalCollectRaises
    \/ GlobalSave

SpecScript == InitScript /\ [][NextScript]_vars

\* the run's collection of the global source failed: collect returned None
\* or raised
GlobalRunFailed ==
    /\ "global" \in stepsRun
    /\ \/ (spc \in {"global_save", "ended"} /\ scriptExit # "Error" /\ df_g = None)
       \/ scriptExit = "Error"

\* the run's collection of the KOFIA source failed: the call raised
KofiaRunFailed == "kofia" \in stepsRun /\ scriptExit = "TypeError"

\* C12: a run whose collection of a source fails leaves the persisted CSV of
\* that source exactly as it was when the run started (same dates, columns
\* and cells, and still there); the CSV of a source changes only in a run
\* whose collect returned a table.
C12_FailedRunKeepsPersistedCsv ==
    /\ GlobalRunFailed => globalCsv = csvAtStart.global
    /\ KofiaRunFailed => bondCsv = csvAtStart.bond /\ globalCsv = csvAtStart.global
    /\ bondCsv = csvAtStart.bond
    /\ globalCsv # csvAtStart.global => "global" \in stepsRun /\ IsTable(df_g)

\* a second run finds a global CSV, its collect returns None, and the run
\* ends with the CSV of the first run in place
C12_Witness ==
    /\ spc = "ended"
    /\ runs = 2
    /\ "global" \in stepsRun
    /\ df_g = None
    /\ scriptExit = "ok"
    /\ IsTable(globalCsv)
    /\ globalCsv = csvAtStart.global

\* a table has one row for every calendar day from its first to its last date
CalendarComplete(df) ==
    Len(df.index) > 0 => df.index = date_range(Min(Range(df.index)), Max(Range(df.index)))

\* C13: after any sequence of successful incremental runs the persisted wide
\* table has exactly one row for every calendar day between its first and
\* its last date.
C13_PersistedTableIsCalendarComplete ==
    (spc = "ended" /\ globalCsv # None) => CalendarComplete(globalCsv)

\* the last date a CSV holds, none without a file or without rows
HasLastDate(csv) == csv # None /\ Len(csv.index) > 0

\* day a is the calendar date five years before day b: the same month and
\* day five years earlier, or 5 * 365 days earlier for a 29 February
FiveYearsEarlier(a, b) ==
    LET c == civil(Epoch + b)
    IN  IF c[2] = 2 /\ c[3] = 29 THEN a = b - 1825
        ELSE civil(Epoch + a) = <<c[1] - 5, c[2], c[3]>>

CsvAtStartOf(name) == IF name = "BondSummary" THEN csvAtStart.bond ELSE csvAtStart.global

CallsOf(name) == {i \in 1..Len(calls) : calls[i].collector = name}

\* C27: every collect call of a run asks for the days from the day after the
\* last persisted date of its source (five years before the end date when
\* nothing is persisted) to the end date, yesterday; and when the day after
\* the last persisted date is after the end date the run makes no collect
\* call for that source and leaves its CSV as it was.
C27_IncrementalRunStartsAfterLastDate ==
    /\ \A i \in 1..Len(calls) :
          /\ calls[i].end_date = clock - 1
          /\ calls[i].start_date <= calls[i].end_date
          /\ IF HasLastDate(CsvAtStartOf(calls[i].collector))
             THEN calls[i].start_date =
                     Max(Range(CsvAtStartOf(calls[i].collector).index)) + 1
             ELSE FiveYearsEarlier(calls[i].start_date, calls[i].end_date)
    /\ \A name \in {"BondSummary", "GlobalTreasury"} :
          (HasLastDate(CsvAtStartOf(name))
              /\ Max(Range(CsvAtStartOf(name).index)) + 1 > clock - 1) =>
             /\ CallsOf(name) = {}
             /\ name = "BondSummary" => bondCsv = csvAtStart.bond
             /\ name = "GlobalTreasury" => globalCsv = csvAtStart.global
    /\ Len(calls) <= 1

\* a second run asked the global source for the days from the day after the
\* last date of the CSV the first run wrote, and the bond source, up to
\* date, was not asked
C27_Witness ==
    /\ spc = "ended"
    /\ runs = 2
    /\ HasLastDate(csvAtStart.global)
    /\ HasLastDate(csvAtStart.bond)
    /\ calls = <<Call("GlobalTreasury", Max(Range(csvAtStart.global.index)) + 1, clock - 1)>>

\* the run reached the global step
GlobalStepReached == spc \in {"global", "global_save"} \/ scriptExit \in {"ok", "Error"}

\* C30: whatever the KOFIA step does (nothing to collect, a result, an
\* error), a run of the script that has ended went through the global step.
C30_GlobalStepAlwaysRuns ==
    (spc = "ended" /\ runs > 0) => GlobalStepReached

(***************************************************************************)
(* SpecMergeSave: _merge_save applied to an existing CSV table (tblA, None *)
(* without a file) and a newly collected table (tblB)                      *)
(***************************************************************************)
\* the tables over the given columns with any non-empty set of dates, the
\* cell at date d and column place j holding base + 10 * j + d
TablesFrom(columns, base) ==
    {[index   |-> SortedSeq(S),
      columns |-> columns,
      data    |-> [i \in 1..Cardinality(S) |->
                     [j \in 1..Len(columns) |-> Num(base + 10 * j + SortedSeq(S)[i])]]] :
        S \in (SUBSET Dates) \ {{}}}

\* what _load_csv can return: no file, a file without rows, or a table
\* written by an earlier _merge_save
ExistingInputs ==
    {None, EmptyTable} \cup TablesFrom(<<"US_10Y">>, 300)
                       \cup TablesFrom(<<"JP_10Y", "US_10Y">>, 300)

\* what a collector returns: a table of sorted unique dates
NewInputs == TablesFrom(<<"US_10Y">>, 400) \cup TablesFrom(<<"US_10Y", "DE_10Y">>, 400)

InitMergeSave ==
    /\ PortalIdle
    /\ RemoteIdle
    /\ ScriptIdle
    /\ tblA \in ExistingInputs
    /\ tblB \in NewInputs
    /\ refDate = 0
    /\ calcOp = "init"
    /\ calcRet = None
    /\ calcRet2 = None

DoMergeSave ==
    /\ calcOp = "init"
    /\ calcOp' = "merge_save"
    /\ calcRet' = _merge_save(tblA, tblB)
    /\ UNCHANGED <<tblA, tblB, refDate, calcRet2, portalVars, remoteVars, scriptVars>>

NextMergeSave == DoMergeSave

SpecMergeSave == InitMergeSave /\ [][NextMergeSave]_vars

\* the dates and the columns of a table, none for no table
DatesOf(df) == IF df = None THEN {} ELSE Range(df.index)

ColumnsOf(df) == IF df = None THEN {} ELSE Range(df.columns)

\* the cell of df at date d and column c, missing when df has no column c
CellOrNaN(df, d, c) == IF c \in ColumnsOf(df) THEN CellAt(df, d, c) ELSE NaN

\* C18: _merge_save(existing, new) holds every date of existing and of new
\* and no other, each exactly once and in strictly increasing order; at a
\* date of new the row is the row of new; at a date only existing has the
\* row is the row of existing (a column the kept row's table does not have
\* is missing in it).
C18_MergeSaveKeepsNewRowOnOverlap ==
    calcOp = "merge_save" =>
        /\ IsTable(calcRet)
        /\ Range(calcRet.index) = DatesOf(tblA) \cup DatesOf(tblB)
        /\ StrictlyIncreasing(calcRet.index)
        /\ Len(calcRet.data) = Len(calcRet.index)
        /\ Range(calcRet.columns) = (IF DatesOf(tblA) = {} THEN {} ELSE ColumnsOf(tblA))
                                        \cup ColumnsOf(tblB)
        /\ \A d \in DatesOf(tblB) : \A c \in Range(calcRet.columns) :
               CellAt(calcRet, d, c) = CellOrNaN(tblB, d, c)
        /\ \A d \in DatesOf(tblA) \ DatesOf(tblB) : \A c \in Range(calcRet.columns) :
               CellAt(calcRet, d, c) = CellOrNaN(tblA, d, c)

\* existing and new share a date where their rows differ, and existing has
\* a date new does not have that lies after a date of new
C18_Witness ==
    /\ calcOp = "merge_save"
    /\ tblA # None
    /\ \E d \in DatesOf(tblA) \cap DatesOf(tblB) :
           CellAt(tblA, d, "US_10Y") # CellAt(tblB, d, "US_10Y")
    /\ \E d \in DatesOf(tblA) \ DatesOf(tblB) : \E e \in DatesOf(tblB) : e < d

(***************************************************************************)
(* The calculator functions statement by statement, on objects.  A table   *)
(* is passed by reference: the heap is the sequence of the DataFrame       *)
(* objects alive during a call, an object is named by its place in it, and *)
(* the caller's tables are the objects at the first places.  A statement   *)
(* either binds a name to a new object (df = df.reindex(full)) or changes  *)
(* the object a name is bound to (df.index = ..., df[col] = ...).          *)
(***************************************************************************)
\* a DataFrame object: its table, the dtype of its index and the index name
Obj(frame, index_dtype, index_name) ==
    [frame |-> frame, index_dtype |-> index_dtype, index_name |-> index_name]

\* x = <a new DataFrame>: the object is added to the heap
alloc(heap, obj) == [heap |-> Append(heap, obj), id |-> Len(heap) + 1]

no_copy(heap, id) == [heap |-> heap, id |-> id]

\* df.copy(): a new object with the same table, index dtype and index name
copy(heap, id) == alloc(heap, heap[id])

\* df.index = pd.to_datetime(df.index), on the object itself: the labels
\* become Timestamps of the same days
setattr_index_to_datetime(heap, id) == [heap EXCEPT ![id].index_dtype = "datetime64[ns]"]

\* df.index.name = name, on the index of the object itself
setattr_index_name(heap, id, name) == [heap EXCEPT ![id].index_name = name]

\* pd.to_datetime on one cell of a date column
to_datetime(cell) == [k |-> "datetime64[ns]", v |-> cell.v]

\* df[date_col] = pd.to_datetime(df[date_col]), on the object itself
setitem_to_datetime(heap, id, p) ==
    [heap EXCEPT ![id].frame.data =
        [i \in 1..Len(heap[id].frame.data) |->
            [heap[id].frame.data[i] EXCEPT ![p] = to_datetime(heap[id].frame.data[i][p])]]]

\* the outcome of a call: the heap after it and what it returned or raised
Outcome(heap, value) == [heap |-> heap, ret |-> value]

\* TreasuryCalc.fill_calendar / KofiaCalc.fill_calendar
call_fill_calendar(heap, arg) ==
    LET c1   == copy(heap, arg)
        h2   == setattr_index_to_datetime(c1.heap, c1.id)
        df   == h2[c1.id].frame
    IN  IF Len(df.index) = 0 \/ HasDuplicates(df.index)
        THEN Outcome(h2, Raised("ValueError"))
        ELSE LET full == date_range(Min(Range(df.index)), Max(Range(df.index)))
                 c3   == alloc(h2, Obj(reindex(df, full), "datetime64[ns]", None))
                 c4   == alloc(c3.heap, Obj(ffill(c3.heap[c3.id].frame), "datetime64[ns]", None))
                 h5   == setattr_index_name(c4.heap, c4.id, "Date")
             IN  Outcome(h5, h5[c4.id])

\* TreasuryCalc.merge
call_merge(heap, global_df, kr_df) ==
    LET g1 == copy(heap, global_df)
        h2 == setattr_index_to_datetime(g1.heap, g1.id)
        k3 == copy(h2, kr_df)
        h4 == setattr_index_to_datetime(k3.heap, k3.id)
        joined == join(h4[g1.id].frame, h4[k3.id].frame)
    IN  IF IsRaised(joined) THEN Outcome(h4, joined)
        ELSE LET m5 == alloc(h4, Obj(joined, "datetime64[ns]", h4[g1.id].index_name))
                 m6 == alloc(m5.heap, [m5.heap[m5.id] EXCEPT !.frame = ffill(joined)])
                 m7 == alloc(m6.heap, [m6.heap[m6.id] EXCEPT !.frame = sort_index(ffill(joined))])
             IN  Outcome(m7.heap, m7.heap[m7.id])

\* TreasuryCalc.get_ref_value: reads df.index, df.columns and one row
call_get_ref_value(heap, df, ref_date) ==
    Outcome(heap, get_ref_value(heap[df].frame, ref_date))

\* TreasuryCalc.build_change_summary: reads df through get_ref_value, builds
\* df_result and sets its columns and index name
call_build_change_summary(heap, df, target_date) ==
    LET r1 == alloc(heap, Obj(build_change_summary(heap[df].frame, target_date), "object", None))
        h2 == setattr_index_name(r1.heap, r1.id, "gubun")
    IN  Outcome(h2, h2[r1.id])

\* what standardize and standardize_bond do after the rename map is built
standardize_tail(heap, id, keys, selected) ==
    IF keys = << >> THEN Outcome(heap, Raised("ValueError"))
    ELSE LET c == alloc(heap, [heap[id] EXCEPT !.frame = selected])
         IN  call_fill_calendar(c.heap, c.id)

\* KofiaCalc.standardize
call_standardize(heap, arg) ==
    LET c1 == copy(heap, arg)
        h2 == setitem_to_datetime(c1.heap, c1.id, 1)
        c3 == alloc(h2, Obj(set_index(h2[c1.id].frame, 1), "datetime64[ns]", None))
        h4 == setattr_index_name(c3.heap, c3.id, "Date")
        indexed  == h4[c3.id].frame
        renamed  == rename(indexed, kr_codes(indexed))
        matching == SelectSeq(renamed.columns, IsKrCode)
        kr_cols  == sorted(matching, [j \in 1..Len(matching) |-> kr_sort_key(matching[j])])
    IN  standardize_tail(h4, c3.id, kr_rename_map_keys(indexed),
                         to_numeric(getitem(renamed, kr_cols)))

\* KofiaCalc.standardize_bond
call_standardize_bond(heap, arg) ==
    LET c1 == copy(heap, arg)
        p  == date_col(c1.heap[c1.id].frame)
        h2 == setitem_to_datetime(c1.heap, c1.id, p)
        c3 == alloc(h2, Obj(set_index(h2[c1.id].frame, p), "datetime64[ns]", None))
        h4 == setattr_index_name(c3.heap, c3.id, "Date")
        c5 == alloc(h4, [h4[c3.id] EXCEPT !.frame = sort_index(h4[c3.id].frame)])
        indexed == c5.heap[c5.id].frame
        kept    == getitem(indexed, bond_rename_map_keys(indexed))
        coded   == to_numeric(rename(kept, bond_codes(kept)))
        sorted_cols == sorted(coded.columns,
                              [j \in 1..Len(coded.columns) |-> _col_sort_key(coded.columns[j])])
    IN  standardize_tail(c5.heap, c5.id, bond_rename_map_keys(indexed),
                         getitem(coded, sorted_cols))

\* the tables a caller holds: collected (an index of datetime.date objects,
\* named Date) or read from a CSV (a DatetimeIndex named Date)
IndexDtypes == {"object", "datetime64[ns]"}

CallerTables(tables) == {Obj(t, dt, "Date") : t \in tables, dt \in IndexDtypes}

\* a raw export: a RangeIndex without a name, the dates in a column
CallerRawTables == {Obj(t, "int64", None) : t \in RawTables}

NoTable == Obj(EmptyTable, "object", None)

InitFrames ==
    /\ PortalIdle
    /\ RemoteIdle
    /\ ScriptIdle
    /\ \/ /\ calcOp = "wide"
          /\ tblA \in CallerTables(TablesFrom(<<"US_10Y">>, 400)
                                      \cup TablesFrom(<<"US_2Y", "US_10Y">>, 400))
          /\ tblB = NoTable
       \/ /\ calcOp = "pair"
          /\ tblA \in CallerTables(TablesFrom(<<"US_10Y">>, 400))
          /\ tblB \in CallerTables(TablesFrom(<<"KR_2Y", "KR_10Y">>, 300))
       \/ /\ calcOp = "raw"
          /\ tblA \in CallerRawTables
          /\ tblB = NoTable
       \/ /\ calcOp = "merged"
          /\ tblA \in CallerTables(SummaryTablesOf(<<"KR_2Y", "US_10Y">>))
          /\ tblB = NoTable
    /\ refDate = None
    /\ calcRet = None
    /\ calcRet2 = <<tblA, tblB>>

\* a call with the caller's tables at places 1 and 2 of the heap: the
\* caller's tables afterwards are the objects at those places
Returns(op, outcome) ==
    /\ calcOp' = op
    /\ tblA' = outcome.heap[1]
    /\ tblB' = outcome.heap[2]
    /\ calcRet' = outcome.ret
    /\ UNCHANGED <<calcRet2, portalVars, remoteVars, scriptVars>>

CallFillCalendar ==
    /\ calcOp = "wide"
    /\ Returns("fill_calendar", call_fill_calendar(<<tblA, tblB>>, 1))
    /\ UNCHANGED refDate

CallGetRefValue ==
    /\ calcOp = "wide"
    /\ \E r \in RefDates :
          /\ refDate' = r
          /\ Returns("get_ref_value", call_get_ref_value(<<tblA, tblB>>, 1, r))

CallMerge ==
    /\ calcOp = "pair"
    /\ Returns("merge", call_merge(<<tblA, tblB>>, 1, 2))
    /\ UNCHANGED refDate

CallStandardize ==
    /\ calcOp = "raw"
    /\ Returns("standardize", call_standardize(<<tblA, tblB>>, 1))
    /\ UNCHANGED refDate

CallStandardizeBond ==
    /\ calcOp = "raw"
    /\ Returns("standardize_bond", call_standardize_bond(<<tblA, tblB>>, 1))
    /\ UNCHANGED refDate

CallBuildChangeSummary ==
    /\ calcOp = "merged"
    /\ \E target_date \in TargetDates \cup {None} :
          /\ refDate' = target_date
          /\ Returns("build_change_summary",
                     call_build_change_summary(<<tblA, tblB>>, 1, target_date))

NextFrames ==
    \/ CallFillCalendar
    \/ CallGetRefValue
    \/ CallMerge
    \/ CallStandardize
    \/ CallStandardizeBond
    \/ CallBuildChangeSummary

SpecFrames == InitFrames /\ [][NextFrames]_vars

Called == calcOp \in {"fill_calendar", "get_ref_value", "merge", "standardize",
                      "standardize_bond", "build_change_summary"}

\* C16: after a call of fill_calendar, merge, standardize, standardize_bond,
\* get_ref_value or build_change_summary, whether it returned or raised,
\* each table the caller passed has the index (labels, dtype and name), the
\* columns and the cell values it had before the call.
C16_CallerTablesAreNotModified ==
    Called => <<tblA, tblB>> = calcRet2

\* the call also returns what the function computes from the table
C16_ReturnsTheFunctionValue ==
    /\ (calcOp = "fill_calendar" /\ ~IsRaised(calcRet)) =>
           calcRet.frame = fill_calendar(tblA.frame)
    /\ (calcOp = "merge" /\ ~IsRaised(calcRet)) =>
           calcRet.frame = merge(tblA.frame, tblB.frame)
    /\ (calcOp = "standardize" /\ ~IsRaised(calcRet)) =>
           calcRet.frame = standardize(tblA.frame)
    /\ (calcOp = "standardize_bond" /\ ~IsRaised(calcRet)) =>
           calcRet.frame = standardize_bond(tblA.frame)
    /\ (calcOp \in {"standardize", "standardize_bond"} /\ IsRaised(calcRet)) =>
           calcRet = (IF calcOp = "standardize" THEN standardize(tblA.frame)
                      ELSE standardize_bond(tblA.frame))

\* fill_calendar was passed a collected table (dates as datetime.date
\* objects) and returned a table with more rows and a DatetimeIndex
C16_Witness ==
    /\ calcOp = "fill_calendar"
    /\ tblA.index_dtype = "object"
    /\ ~IsRaised(calcRet)
    /\ Len(calcRet.frame.index) > Len(tblA.frame.index)
    /\ calcRet.index_dtype = "datetime64[ns]"

\* ---------------------------------------------------------------------
\* Checkbox calls: the calls a collector makes on the instrument checkboxes,
\* run side by side on two loaded pages (src/modules/collector/kofia.py,
\* src/test_OTC.py).
\*   tblA, tblB        the checked sets the two pages had when loaded
\*   calcRet, calcRet2 the run on each page: its checked set now, the boxes
\*                     clicked and the boxes whose state was read, in order
\*   calcOp            the program making the calls
\*   refDate           calls made so far
\* ---------------------------------------------------------------------

\* chkAnnItm_input_0 .. chkAnnItm_input_17
Boxes == 0..17

\* a loaded page differs from the default selection in at most MaxDrift boxes
MaxDrift == 1

Pages ==
    {(PageDefaultChecked \ drift) \cup (drift \ PageDefaultChecked) :
        drift \in {bs \in SUBSET Boxes : Cardinality(bs) <= MaxDrift}}

\* test_OTC.py: INIT_UNCHECK and TEST_BATCH_IDS
INIT_UNCHECK == <<1, 2, 3, 12, 13, 16>>

TEST_BATCH_IDS == <<0, 1, 2, 3, 4, 5>>

\* cb.is_selected()
is_selected(page, cid) == cid \in page

\* driver.execute_script("arguments[0].click();", cb)
click(page, cid) == IF cid \in page THEN page \ {cid} ELSE page \cup {cid}

CheckboxCalls(f, ids, want) ==
    [i \in 1..Len(ids) |-> [f |-> f, cid |-> ids[i], want |-> want]]

\* the checkbox calls of a program, in the order it makes them:
\* TreasurySummary.collect, BondSummary.collect (first batch), test_OTC.run
checkbox_calls(prog) ==
    CASE prog = "TreasurySummary" ->
            CheckboxCalls("_set_checkbox", _UNCHECK, FALSE)
            \o CheckboxCalls("_set_checkbox", _CHECK, TRUE)
      [] prog = "BondSummary" ->
            CheckboxCalls("_set_checkbox", _BOND_SUMMARY_INIT_UNCHECK, FALSE)
            \o CheckboxCalls("_set_checkbox", _BOND_SUMMARY_BATCHES[1].ids, TRUE)
            \o CheckboxCalls("_set_checkbox", _BOND_SUMMARY_BATCHES[1].ids, FALSE)
      [] prog = "test_OTC" ->
            CheckboxCalls("_force_click_checkbox", INIT_UNCHECK, TRUE)
            \o CheckboxCalls("_force_click_checkbox", TEST_BATCH_IDS, TRUE)

CheckboxPrograms == {"TreasurySummary", "BondSummary", "test_OTC"}

PageRun(page) == [page |-> page, clicks |-> << >>, reads |-> << >>]

\* kofia.py _set_checkbox(driver, cid, checked) on a page: reads the state
\* of the box and clicks it when the state is not the wanted one
set_checkbox_call(run, cid, want) ==
    [page   |-> IF is_selected(run.page, cid) # want
                THEN click(run.page, cid) ELSE run.page,
     clicks |-> IF is_selected(run.page, cid) # want
                THEN Append(run.clicks, cid) ELSE run.clicks,
     reads  |-> Append(run.reads, cid)]

\* test_OTC.py _force_click_checkbox(driver, cid) on a page: clicks the box
force_click_checkbox_call(run, cid) ==
    [page   |-> click(run.page, cid),
     clicks |-> Append(run.clicks, cid),
     reads  |-> run.reads]

InitCheckbox ==
    /\ PortalIdle
    /\ RemoteIdle
    /\ ScriptIdle
    /\ tblA = PageDefaultChecked
    /\ tblB \in Pages
    /\ calcOp \in CheckboxPrograms
    /\ refDate = 0
    /\ calcRet = PageRun(tblA)
    /\ calcRet2 = PageRun(tblB)

next_call == checkbox_calls(calcOp)[refDate + 1]

\* the next call of the program is a _set_checkbox call
SetCheckbox ==
    /\ refDate < Len(checkbox_calls(calcOp))
    /\ next_call.f = "_set_checkbox"
    /\ calcRet' = set_checkbox_call(calcRet, next_call.cid, next_call.want)
    /\ calcRet2' = set_checkbox_call(calcRet2, next_call.cid, next_call.want)
    /\ refDate' = refDate + 1
    /\ UNCHANGED <<tblA, tblB, calcOp, portalVars, remoteVars, scriptVars>>

\* the next call of the program is a _force_click_checkbox call
ForceClickCheckbox ==
    /\ refDate < Len(checkbox_calls(calcOp))
    /\ next_call.f = "_force_click_checkbox"
    /\ calcRet' = force_click_checkbox_call(calcRet, next_call.cid)
    /\ calcRet2' = force_click_checkbox_call(calcRet2, next_call.cid)
    /\ refDate' = refDate + 1
    /\ UNCHANGED <<tblA, tblB, calcOp, portalVars, remoteVars, scriptVars>>

NextCheckbox ==
    \/ SetCheckbox
    \/ ForceClickCheckbox

SpecCheckbox == InitCheckbox /\ [][NextCheckbox]_vars

\* the checkbox calls of test_OTC.py read no state and click the same boxes
\* whatever the page shows
ForceClickIsStateless ==
    calcOp = "test_OTC" =>
        /\ calcRet.reads = << >> /\ calcRet2.reads = << >>
        /\ calcRet.clicks = calcRet2.clicks

\* the same call, _set_checkbox(cid, True), clicks one box and not another
\* on the default page, by what is_selected answered
SameCallDifferentClick ==
    /\ calcOp = "TreasurySummary"
    /\ refDate = Len(checkbox_calls(calcOp))
    /\ 1 \in Range(calcRet.clicks)
    /\ 2 \notin Range(calcRet.clicks)

\* C21: the boxes a program clicks are fixed by its call sequence alone: the
\* same calls click the same boxes on two pages that show different checked
\* sets, and no call reads a box's checked state from the page.
C21_ClicksDoNotDependOnReadState ==
    /\ calcRet.clicks = calcRet2.clicks
    /\ calcRet.reads = << >>

\* ---------------------------------------------------------------------
\* Merge of the batch tables in BondSummary.collect
\* (src/modules/collector/kofia.py:420-435).
\*   tblA     dfs, the parsed batch tables in batch order
\*   calcRet  merged, as written to bond_summary.xlsx
\* ---------------------------------------------------------------------

\* the batch tables hold dates 1..MaxBatchDate
MaxBatchDate == 2

BatchDates == 1..MaxBatchDate

\* the instrument column of each batch, and a column the portal may add to
\* any export
batch_column == <<"col_A", "col_B", "col_C">>

extra_column == "extra"

\* the tables _parse_kofia_xls may return for batch i: some dates, the
\* batch's column filled, the added column present or not, filled or not
BatchTables(i) ==
    UNION {
        {[index   |-> SortedSeq(S),
          columns |-> <<batch_column[i]>>,
          data    |-> [r \in 1..Cardinality(S) |-> <<Num(100 + i)>>]]}
        \cup
        {[index   |-> SortedSeq(S),
          columns |-> <<batch_column[i], extra_column>>,
          data    |-> [r \in 1..Cardinality(S) |-> <<Num(100 + i), e[r]>>]] :
            e \in [1..Cardinality(S) -> {NaN, Num(200 + i)}]}
        : S \in SUBSET BatchDates}

RECURSIVE ParsedTables(_)
ParsedTables(order) ==
    IF order = << >> THEN {<< >>}
    ELSE {<<t>> \o rest : t \in BatchTables(Head(order)),
                         rest \in ParsedTables(Tail(order))}

\* left.merge(right, on="Date", how="outer"): one row per date of either
\* table; the columns of left then those of right; a name both tables have
\* gets the suffix _x on the left and _y on the right
merge_on_Date(left, right) ==
    LET both == Range(left.columns) \cap Range(right.columns)
        ix   == SortedSeq(Range(left.index) \cup Range(right.index))
    IN  [index   |-> ix,
         columns |-> [j \in 1..Len(left.columns) |->
                        IF left.columns[j] \in both
                        THEN left.columns[j] \o "_x" ELSE left.columns[j]]
                     \o
                     [j \in 1..Len(right.columns) |->
                        IF right.columns[j] \in both
                        THEN right.columns[j] \o "_y" ELSE right.columns[j]],
         data    |-> [r \in 1..Len(ix) |-> RowAt(left, ix[r]) \o RowAt(right, ix[r])]]

\* merged = dfs[0]; for df in dfs[1:]: merged = merged.merge(df, ...)
RECURSIVE merge_batches(_, _)
merge_batches(merged, rest) ==
    IF rest = << >> THEN merged
    ELSE merge_batches(merge_on_Date(merged, Head(rest)), Tail(rest))

\* merged.sort_values("Date", ascending=True).reset_index(drop=True)
sort_values_Date(df) == sort_index(df)

InitBatchMerge ==
    /\ PortalIdle
    /\ RemoteIdle
    /\ ScriptIdle
    /\ \E parsed \in (SUBSET (1..Len(_BOND_SUMMARY_BATCHES))) \ {{}} :
          tblA \in ParsedTables(SortedSeq(parsed))
    /\ tblB = EmptyTable
    /\ refDate = 0
    /\ calcOp = "init"
    /\ calcRet = None
    /\ calcRet2 = None

DoBatchMerge ==
    /\ calcOp = "init"
    /\ calcOp' = "batch_merge"
    /\ calcRet' = sort_values_Date(merge_batches(Head(tblA), Tail(tblA)))
    /\ UNCHANGED <<tblA, tblB, refDate, calcRet2, portalVars, remoteVars, scriptVars>>

NextBatchMerge == DoBatchMerge

SpecBatchMerge == InitBatchMerge /\ [][NextBatchMerge]_vars

\* the column names and the dates of the batch tables
BatchNamesIn(dfs) == UNION {Range(dfs[j].columns) : j \in 1..Len(dfs)}

BatchDatesIn(dfs) == UNION {Range(dfs[j].index) : j \in 1..Len(dfs)}

\* the first non-missing value of column c at date d among the batch
\* tables, in batch order; missing when there is none
FirstNonMissing(dfs, d, c) ==
    LET having == {j \in 1..Len(dfs) :
                      /\ c \in Range(dfs[j].columns)
                      /\ d \in Range(dfs[j].index)
                      /\ CellAt(dfs[j], d, c) # NaN}
    IN  IF having = {} THEN NaN ELSE CellAt(dfs[Min(having)], d, c)

\* some column name is in more than one batch table
DuplicateNames(dfs) ==
    \E j, k \in 1..Len(dfs) :
        j < k /\ Range(dfs[j].columns) \cap Range(dfs[k].columns) # {}

\* merged has one row per date of any batch table, each column name of the
\* batch tables once, and in each cell the first non-missing value
JoinedOnDate(dfs, merged) ==
    /\ merged.index = SortedSeq(BatchDatesIn(dfs))
    /\ Len(merged.data) = Len(merged.index)
    /\ Cardinality(Range(merged.columns)) = Len(merged.columns)
    /\ Range(merged.columns) = BatchNamesIn(dfs)
    /\ \A d \in BatchDatesIn(dfs) : \A c \in BatchNamesIn(dfs) :
          CellAt(merged, d, c) = FirstNonMissing(dfs, d, c)

\* batch tables with no column name in common are joined as JoinedOnDate says
DisjointBatchesJoinedOnDate ==
    (calcOp = "batch_merge" /\ ~DuplicateNames(tblA)) => JoinedOnDate(tblA, calcRet)

\* C23: the merged table has one row per date of any batch table and each
\* column once; a column name that is in more than one batch table gives
\* one column of that name, holding at each date the first non-missing
\* value among the duplicates in batch order.
C23_OuterJoinWithDuplicatesCoalesced ==
    calcOp = "batch_merge" => JoinedOnDate(tblA, calcRet)

\* ---------------------------------------------------------------------
\* _fetch_history: from the response table to the series
\* (src/modules/collector/investing.py:254-267,
\*  src/modules/collector/global_treasury_rate.py:300-321).
\*   tblA     dfs[0], the first table pd.read_html found in the response
\*   calcRet  what _fetch_history returns
\* ---------------------------------------------------------------------

\* the response table has at most MaxResponseRows rows
MaxResponseRows == 3

\* a Date cell: a date as text, a text that is no date, or nothing
DateStr(d) == [k |-> "date_str", date |-> d]

NoDateStr == [k |-> "str", text |-> "No results found"]

DateCells == {DateStr(1), DateStr(2), NoDateStr, NaN}

\* a Price cell: a number, a text that is no number, or nothing
PriceCells == {Num(410), [k |-> "str", text |-> "-"], NaN}

ResponseRows ==
    UNION {[1..n -> [Date : DateCells, Price : PriceCells]] : n \in 0..MaxResponseRows}

ResponseTables ==
    {[columns |-> cols, rows |-> rows] :
        cols \in {<<"Date", "Price">>, <<"Date", "Change %">>}, rows \in ResponseRows}

NaT == [k |-> "NaT"]

\* the Timestamp of day d
Stamp(d) == [k |-> "Timestamp", date |-> d]

\* pd.to_datetime(df["Date"]), errors="raise" by default: a text that is no
\* date raises ValueError for the whole column
date_parses(c) == c.k \in {"nan", "date_str"}

to_datetime_raises(rows) == \E i \in 1..Len(rows) : ~date_parses(rows[i].Date)

\* pd.to_datetime(df["Date"]) when it returns: a missing cell gives NaT
to_datetime_Date(rows) ==
    [i \in 1..Len(rows) |->
        [rows[i] EXCEPT !.Date = IF rows[i].Date = NaN THEN NaT
                                 ELSE Stamp(rows[i].Date.date)]]

\* pd.to_numeric(df["Price"], errors="coerce"): what does not parse is NaN
to_numeric_Price(rows) ==
    [i \in 1..Len(rows) |->
        [rows[i] EXCEPT !.Price = IF rows[i].Price.k = "num" THEN rows[i].Price
                                   ELSE NaN]]

\* df.dropna(subset=["Date", "Price"])
dropna_Date_Price(rows) ==
    SelectSeq(rows, LAMBDA r : r.Date # NaT /\ r.Price # NaN)

\* df.sort_values("Date", ascending=True)
RECURSIVE sort_values_rows(_)
sort_values_rows(rows) ==
    IF rows = << >> THEN << >>
    ELSE LET first == CHOOSE i \in 1..Len(rows) :
                         \A j \in 1..Len(rows) :
                            /\ rows[i].Date.date <= rows[j].Date.date
                            /\ (rows[i].Date = rows[j].Date => i <= j)
         IN  <<rows[first]>>
             \o sort_values_rows(SubSeq(rows, 1, first - 1)
                                 \o SubSeq(rows, first + 1, Len(rows)))

\* pd.Series(df["Price"].values, index=df["Date"].dt.date, dtype=float)
SeriesOf(rows) ==
    [index  |-> [i \in 1..Len(rows) |-> rows[i].Date.date],
     values |-> [i \in 1..Len(rows) |-> rows[i].Price]]

\* the part of _fetch_history after dfs[0]; an exception anywhere in it is
\* caught and None is returned
_fetch_history(df) ==
    IF ~({"Date", "Price"} \subseteq Range(df.columns)) THEN None
    ELSE IF to_datetime_raises(df.rows) THEN None
    ELSE SeriesOf(sort_values_rows(dropna_Date_Price(
             to_numeric_Price(to_datetime_Date(df.rows)))))

InitFetch ==
    /\ PortalIdle
    /\ RemoteIdle
    /\ ScriptIdle
    /\ tblA \in ResponseTables
    /\ tblB = EmptyTable
    /\ refDate = 0
    /\ calcOp = "init"
    /\ calcRet = None
    /\ calcRet2 = None

FetchHistory ==
    /\ calcOp = "init"
    /\ calcOp' = "fetch_history"
    /\ calcRet' = _fetch_history(tblA)
    /\ UNCHANGED <<tblA, tblB, refDate, calcRet2, portalVars, remoteVars, scriptVars>>

NextFetch == FetchHistory

SpecFetch == InitFetch /\ [][NextFetch]_vars

\* the row's date and value both parse
RowParses(r) ==
    /\ r.Date.k = "date_str"
    /\ r.Price.k = "num"

\* the rows of the response with the given date and value, and the entries
\* of the series with them
RowsWith(rows, d, v) ==
    {i \in 1..Len(rows) : RowParses(rows[i]) /\ rows[i].Date.date = d /\ rows[i].Price = v}

EntriesWith(series, d, v) ==
    {i \in 1..Len(series.index) : series.index[i] = d /\ series.values[i] = v}

\* the series holds exactly the rows of the response that parse
ExactlyTheParsedRows(df, series) ==
    /\ series # None
    /\ Len(series.index) = Cardinality({i \in 1..Len(df.rows) : RowParses(df.rows[i])})
    /\ \A d \in 1..2 : \A v \in PriceCells :
          Cardinality(EntriesWith(series, d, v)) = Cardinality(RowsWith(df.rows, d, v))
    /\ \A i \in 1..(Len(series.index) - 1) : series.index[i] <= series.index[i + 1]

HasDateAndPrice(df) == {"Date", "Price"} \subseteq Range(df.columns)

\* when every Date cell is a date or missing, the rows that do not parse are
\* dropped and the others returned
DropsRowsWhenDatesParse ==
    (/\ calcOp = "fetch_history"
     /\ HasDateAndPrice(tblA)
     /\ \A i \in 1..Len(tblA.rows) : date_parses(tblA.rows[i].Date))
        => ExactlyTheParsedRows(tblA, calcRet)

\* C24: for a response table with the Date and Price columns, _fetch_history
\* returns a series holding exactly the rows whose date and value parse; a
\* row that does not parse is dropped, the other rows stay, and the result
\* is not None.
C24_UnparsedRowsAreDropped ==
    (calcOp = "fetch_history" /\ HasDateAndPrice(tblA))
        => ExactlyTheParsedRows(tblA, calcRet)

\* ---------------------------------------------------------------------
\* _extract_pair_id and _search_in_json
\* (src/modules/collector/investing.py:161-213,
\*  src/modules/collector/global_treasury_rate.py:180-253).
\*   tblA     html: the __NEXT_DATA__ script of the page (absent, not JSON,
\*            or the JSON value) and the first match of the markup patterns
\*   calcOp   the class whose _extract_pair_id ran
\*   calcRet  what it returned: None or the id
\* ---------------------------------------------------------------------

\* JSON values: null, numbers (Num), text that int() accepts, other text,
\* objects and arrays
JNull == [k |-> "null"]

JNumStr(n) == [k |-> "numstr", v |-> n]

JText == [k |-> "str", text |-> ""]

JDict(items) == [k |-> "dict", items |-> items]

JList(items) == [k |-> "list", items |-> items]

Item(key, val) == [key |-> key, val |-> val]

isdict(obj) == obj.k = "dict"

\* obj.get(key, default) of a dict
dict_get(obj, key, default) ==
    IF \E i \in 1..Len(obj.items) : obj.items[i].key = key
    THEN obj.items[CHOOSE i \in 1..Len(obj.items) : obj.items[i].key = key].val
    ELSE default

\* int(val): raises ValueError or TypeError on what is no number
int_raises(val) == val.k \notin {"num", "numstr"}

int(val) == val.v

\* _search_in_json(obj, _depth): the first value above 1000 under one of the
\* keys instrumentId, pairId, pair_id, depth first, at most 12 levels down
id_keys == <<"instrumentId", "pairId", "pair_id">>

key_hits(obj) ==
    {j \in 1..Len(id_keys) :
        /\ dict_get(obj, id_keys[j], JNull) # JNull
        /\ ~int_raises(dict_get(obj, id_keys[j], JNull))
        /\ int(dict_get(obj, id_keys[j], JNull)) > 1000}

RECURSIVE _search_in_json(_, _)
RECURSIVE search_each(_, _)
search_each(objs, depth) ==
    IF objs = << >> THEN None
    ELSE IF _search_in_json(Head(objs), depth) # None
    THEN _search_in_json(Head(objs), depth)
    ELSE search_each(Tail(objs), depth)

_search_in_json(obj, depth) ==
    IF depth > 12 THEN None
    ELSE IF obj.k = "dict"
    THEN IF key_hits(obj) # {}
         THEN Num(int(dict_get(obj, id_keys[Min(key_hits(obj))], JNull)))
         ELSE search_each([i \in 1..Len(obj.items) |-> obj.items[i].val], depth + 1)
    ELSE IF obj.k = "list"
    THEN search_each(SubSeq(obj.items, 1, IF Len(obj.items) < 30 THEN Len(obj.items) ELSE 30),
                     depth + 1)
    ELSE None

\* nd.get("props", {}).get("pageProps", {}).get("state", {}) and
\* state.get("bondStore", {}).get("instrumentId"): .get on a value that is
\* no dict raises AttributeError
props(nd) == dict_get(nd, "props", JDict(<< >>))

pageProps(nd) == dict_get(props(nd), "pageProps", JDict(<< >>))

state(nd) == dict_get(pageProps(nd), "state", JDict(<< >>))

bondStore(nd) == dict_get(state(nd), "bondStore", JDict(<< >>))

get_raises(nd) ==
    \/ ~isdict(nd)
    \/ ~isdict(props(nd))
    \/ ~isdict(pageProps(nd))
    \/ ~isdict(state(nd))
    \/ ~isdict(bondStore(nd))

instrument_id(nd) == dict_get(bondStore(nd), "instrumentId", JNull)

\* the last step of _extract_pair_id: the first match of the four patterns
\* over the markup, or None
search_patterns(html) == html.markup

\* after json.loads: int(instrument_id) with or without its own handler; an
\* exception that reaches the outer handler passes on to the patterns
extract_from_json(html, inner_try) ==
    IF get_raises(html.next_data) THEN search_patterns(html)
    ELSE IF /\ instrument_id(html.next_data) # JNull
            /\ int_raises(instrument_id(html.next_data))
            /\ ~inner_try
    THEN search_patterns(html)
    ELSE IF /\ instrument_id(html.next_data) # JNull
            /\ ~int_raises(instrument_id(html.next_data))
            /\ int(instrument_id(html.next_data)) > 0
    THEN Num(int(instrument_id(html.next_data)))
    ELSE IF _search_in_json(html.next_data, 0) # None
    THEN _search_in_json(html.next_data, 0)
    ELSE search_patterns(html)

\* _extract_pair_id(html); inner_try: int(instrument_id) stands in its own
\* try/except (global_treasury_rate.py) or not (investing.py)
_extract_pair_id(html, inner_try) ==
    IF html.next_data.k \in {"absent", "malformed"} THEN search_patterns(html)
    ELSE extract_from_json(html, inner_try)

\* the pages: a dict `depth` levels below the top holds pairId
Wrap(obj, n) ==
    IF n = 0 THEN obj
    ELSE IF n = 1 THEN JList(<<obj>>)
    ELSE JDict(<<Item("child", JList(<<obj>>))>>)

RECURSIVE Nest(_, _)
Nest(obj, n) == IF n <= 2 THEN Wrap(obj, n) ELSE JDict(<<Item("child", Nest(obj, n - 1))>>)

KnownFieldValues ==
    {JNull, Num(0), Num(7), Num(23705), JNumStr(23705), JText, JList(<<Num(23705)>>)}

OtherIdValues == {Num(24000), Num(500), JNumStr(24000)}

OtherIdDepths == {1, 2, 12, 13}

OtherIds ==
    {<< >>} \cup {<<Item("query", Nest(JDict(<<Item("pairId", v)>>), d - 1))>> :
                     v \in OtherIdValues, d \in OtherIdDepths}

StateValues ==
    {JNull}
    \cup {JDict(<<Item("bondStore", JDict(<< >>))>>)}
    \cup {JDict(<<Item("bondStore", JDict(<<Item("instrumentId", v)>>))>>) :
             v \in KnownFieldValues}

NextData ==
    {[k |-> "absent"], [k |-> "malformed"], JList(<<Num(23705)>>)}
    \cup {JDict(<<Item("props", JDict(<<Item("pageProps", JDict(<<Item("state", st)>>))>>))>>
                \o other) : st \in StateValues, other \in OtherIds}

MarkupIds == {None, Num(25000)}

HtmlPages == {[next_data |-> nd, markup |-> m] : nd \in NextData, m \in MarkupIds}

InitExtract ==
    /\ PortalIdle
    /\ RemoteIdle
    /\ ScriptIdle
    /\ tblA \in HtmlPages
    /\ tblB = EmptyTable
    /\ refDate = 0
    /\ calcOp = "init"
    /\ calcRet = None
    /\ calcRet2 = None

\* GlobalTreasury._extract_pair_id(html)
ExtractPairId ==
    /\ calcOp = "init"
    /\ calcOp' = "GlobalTreasury"
    /\ calcRet' = _extract_pair_id(tblA, FALSE)
    /\ UNCHANGED <<tblA, tblB, refDate, calcRet2, portalVars, remoteVars, scriptVars>>

\* GlobalTreasuryCollector._extract_pair_id(html)
ExtractPairIdCollector ==
    /\ calcOp = "init"
    /\ calcOp' = "GlobalTreasuryCollector"
    /\ calcRet' = _extract_pair_id(tblA, TRUE)
    /\ UNCHANGED <<tblA, tblB, refDate, calcRet2, portalVars, remoteVars, scriptVars>>

NextExtract ==
    \/ ExtractPairId
    \/ ExtractPairIdCollector

SpecExtract == InitExtract /\ [][NextExtract]_vars

IsJson(nd) == nd.k \in {"dict", "list"}

\* the three sources, each by itself: the known field of the state blob when
\* it is a positive integer, the scan of the same JSON, the markup patterns
KnownField(html) ==
    IF /\ IsJson(html.next_data)
       /\ ~get_raises(html.next_data)
       /\ instrument_id(html.next_data) # JNull
       /\ ~int_raises(instrument_id(html.next_data))
       /\ int(instrument_id(html.next_data)) > 0
    THEN Num(int(instrument_id(html.next_data)))
    ELSE None

JsonScan(html) ==
    IF IsJson(html.next_data) THEN _search_in_json(html.next_data, 0) ELSE None

MarkupPatterns(html) == html.markup

FirstUsable(html) ==
    IF KnownField(html) # None THEN KnownField(html)
    ELSE IF JsonScan(html) # None THEN JsonScan(html)
    ELSE MarkupPatterns(html)

Extracted == calcOp \in {"GlobalTreasury", "GlobalTreasuryCollector"}

\* the scan is skipped only when an exception reached the outer handler: a
\* .get on a non-dict in both classes, int() of the known field in
\* GlobalTreasury
OuterHandlerReached(html, op) ==
    /\ IsJson(html.next_data)
    /\ \/ get_raises(html.next_data)
       \/ /\ op = "GlobalTreasury"
          /\ instrument_id(html.next_data) # JNull
          /\ int_raises(instrument_id(html.next_data))

FirstUsableUnlessOuterHandler ==
    (Extracted /\ ~OuterHandlerReached(tblA, calcOp)) => calcRet = FirstUsable(tblA)

\* C25: _extract_pair_id returns the first usable identity among the known
\* state-blob field, the recursive scan of the same JSON and the markup
\* patterns, in this order: a later source is tried whenever every earlier
\* one yields nothing, also when the known field is there but is no
\* positive integer.
C25_FirstUsableSourceWins ==
    Extracted => calcRet = FirstUsable(tblA)

====
